---- MODULE Spec2Model ----
(***************************************************************************)
(* Print-job orchestration pipeline of securepdf: the persisted            *)
(* VectorPrintJob record, the queue workers (processBatch, processMerge),  *)
(* the worker 'failed' handler, the stale-job path of /secure-render and   *)
(* the /generate API path.                                                 *)
(*                                                                         *)
(* Every await on the database, the layout engine or the object store is   *)
(* one atomic step; synchronous code between two awaits belongs to the     *)
(* step that precedes it.  The queue itself (BullMQ) is not part of the    *)
(* sources: work items are taken as delivered, in any order and possibly   *)
(* more than one of a kind for the same job.                               *)
(***************************************************************************)
EXTENDS Integers, Sequences, FiniteSets, TLC

VARIABLES
    jobs,        \* the vector_printjobs collection: job id -> record or NoJob
    idle,        \* time since updatedAt of the pipeline job, in units of staleMs
    uploads,     \* object store writes: set of <<work item, key>>
    kind,        \* work item -> job.name
    reqId,       \* work item -> job.data.printJobId as delivered
    pc,          \* work item -> position in processBatch / processMerge / 'failed'
    doc,         \* work item -> the jobDoc it holds (status, progress) or NoDoc
    fromStatus,  \* work item -> local fromStatus (processMerge, 'failed')
    err,         \* work item -> message of the error it threw, or NoErr
    cas,         \* work item -> outcome of its findOneAndUpdate into the stage
    page,        \* work item -> pageIndex of the batch loop
    stalePc,     \* /secure-render request: "idle" or "cas"
    staleFrom,   \* /secure-render request: fromStatus read before the update
    apiPc,       \* /generate request: "idle", "render", "done"
    redis,       \* the coordination store: lock keys, membership markers, counter
    released,    \* work item -> releaseRenderLock was invoked in its execution
    call,        \* the last call on the render lock, its result, its repetition
    signer,      \* a payload, the tag signed for it, a presented payload, the verdict
    canon,       \* a value, the value last serialized (of) and its serialization
    layout,      \* a call of the layout engine: its arguments and what it drew
    poll         \* a status poll: the job record read and the response

pipelineVars == <<jobs, idle, uploads, kind, reqId, pc, doc, fromStatus, err,
                  cas, page, stalePc, staleFrom, apiPc, released>>

vars == <<jobs, idle, uploads, kind, reqId, pc, doc, fromStatus, err,
          cas, page, stalePc, staleFrom, apiPc, redis, released, call, signer, canon,
          layout, poll>>

(***************************************************************************)
(* Bounds of the model.                                                    *)
(***************************************************************************)
NumItems == 2      \* work items delivered for the pipeline job
TotalPages == 1    \* totalPages of the pipeline job; each batch item's range
NumDocs == 2       \* documents with a lock key in the coordination store
NumIds == 4        \* job ids that acquire and release
MaxActive == 2     \* largest counter value of an arbitrary store
NumValues == 2     \* distinct strings a payload field or an object key holds

(***************************************************************************)
(* Program constants.                                                      *)
(***************************************************************************)
staleMs == 1               \* 6 h, the unit of idle
MaxIdle == staleMs + 1     \* idle is capped one unit past the window
attempts == 1              \* opts.attempts of every enqueued work item
BatchShare == 80           \* batch stage progress share
FinalRenderProgress == 95
ReadyProgress == 100

NoJob == [exists |-> FALSE]
NoDoc == [progress |-> 0]
NoErr == "NoErr"
Null == "null"
NoHmac == <<>>             \* a missing or empty payloadHmac

Statuses == {"CREATED", "BATCH_RUNNING", "MERGE_RUNNING", "READY", "FAILED"}
Terminal == {"READY", "FAILED"}
inProgressStatuses == {"CREATED", "BATCH_RUNNING", "MERGE_RUNNING"}

PipelineJob == "j1"        \* _id of the job the work items are about
ApiJob == "g1"             \* _id of the job /generate creates
JobIds == {PipelineJob, ApiJob}

Items == 1..NumItems

Max(a, b) == IF a >= b THEN a ELSE b
Min(a, b) == IF a <= b THEN a ELSE b
Last(s) == s[Len(s)]

(***************************************************************************)
(* PayloadSigner (services/hmac.js).                                       *)
(***************************************************************************)
\* JavaScript values: a string, undefined, or an object as the sequence of its
\* <<key, value>> pairs in insertion order.
Str(s) == [type |-> "string", str |-> s, obj |-> <<>>]
Undefined == [type |-> "undefined", str |-> "", obj |-> <<>>]
Obj(pairs) == [type |-> "object", str |-> "", obj |-> pairs]

\* value[k]
Get(pairs, k) == pairs[CHOOSE n \in 1..Len(pairs) : pairs[n][1] = k][2]

\* Object.keys(value): the keys in insertion order.
ObjectKeys(pairs) == [n \in 1..Len(pairs) |-> pairs[n][1]]

\* The keys the model uses, in the order Array.prototype.sort gives them.
KeyOrder == <<"a", "b", "createdAt", "documentId", "jobId", "outputKey", "pages",
              "placementRules", "seriesConfig">>

sortKeysInsertionOrder(keys) == keys

\* keys.sort()
sortKeys(keys) == SelectSeq(KeyOrder, LAMBDA k : \E n \in 1..Len(keys) : keys[n] = k)

\* value[k] !== undefined
isDefined(pairs, k) == Get(pairs, k).type # "undefined"

RECURSIVE stableStringify(_)
RECURSIVE joinEntries(_, _)

\* The canonical string, as the sequence of its tokens.
stableStringify(value) ==
    IF value.type = "undefined" THEN <<"undefined">>
    ELSE IF value.type = "string" THEN <<"\"", value.str, "\"">>
    ELSE LET keys == sortKeys(SelectSeq(ObjectKeys(value.obj),
                                        LAMBDA k : isDefined(value.obj, k)))
         IN  <<"{">> \o joinEntries(value.obj, keys) \o <<"}">>

\* entries.join(','), each entry being JSON.stringify(k):stableStringify(value[k]).
joinEntries(pairs, keys) ==
    IF keys = <<>> THEN <<>>
    ELSE <<"\"", Head(keys), "\"", ":">> \o stableStringify(Get(pairs, Head(keys)))
         \o (IF Len(keys) > 1 THEN <<",">> ELSE <<>>)
         \o joinEntries(pairs, Tail(keys))

\* HMAC-SHA256 under the process secret, taken as collision free: the tag
\* determines the canonical string.
signJobPayload(payload) == <<"hmac-sha256", stableStringify(payload)>>

\* A value that is falsy in a condition: undefined or the empty string.
Truthy(value) == value.type = "object" \/ (value.type = "string" /\ value.str # "")

\* payload[k], undefined when the key is absent.
Field(payload, k) ==
    IF \E n \in 1..Len(payload.obj) : payload.obj[n][1] = k THEN Get(payload.obj, k)
    ELSE Undefined

ObjectMsg == "HMAC payload must be a plain object"
ImmutableMsg == "HMAC payload must be immutable only"

\* The error signJobPayload throws instead of returning a tag, NoErr if none
\* (the secret is configured).
signJobPayloadError(payload) ==
    IF ~Truthy(payload) \/ payload.type # "object" THEN ObjectMsg
    ELSE IF \/ Truthy(Field(payload, "pages"))
            \/ Truthy(Field(payload, "seriesConfig"))
            \/ Truthy(Field(payload, "placementRules")) THEN ImmutableMsg
    ELSE NoErr

\* An expectedHmac that is not a string, and a string shorter than a digest.
NotAString == <<"not-a-string">>
ShortTag == <<"short">>

\* typeof expectedHmac !== 'string' || !expectedHmac
isMissing(expectedHmac) == expectedHmac = NotAString \/ expectedHmac = NoHmac

verifyJobPayloadSkipped(payload, expectedHmac) == TRUE

verifyJobPayload(payload, expectedHmac) ==
    IF isMissing(expectedHmac) THEN FALSE
    ELSE signJobPayload(payload) = expectedHmac

\* The error verifyJobPayload lets through from signJobPayload, NoErr if none.
verifyJobPayloadError(payload, expectedHmac) ==
    IF isMissing(expectedHmac) THEN NoErr
    ELSE signJobPayloadError(payload)

\* Object id cast of findById: hex digits are case-insensitive, toString()
\* is lower case.
CastId(id) == IF id = "J1" THEN "j1" ELSE id

getStableHmacPayload(jobDoc) ==
    Obj(<< <<"jobId", Str(jobDoc.id)>>,
           <<"outputKey", Str(jobDoc.metadataOutputKey)>>,
           <<"createdAt", Str(jobDoc.createdAt)>> >>)

(***************************************************************************)
(* Error messages thrown in the workers, and the patterns of mapErrorCode  *)
(* each one contains (case-insensitively).                                 *)
(***************************************************************************)
InvalidLifecycle == "Invalid lifecycle transition"
HmacFailedMsg == "HMAC verification failed"
IdMismatchMsg == "Root printJobId mismatch: rootPrintJobId=J1 payload.jobId=j1"
SecurityViolationMsg == "SECURITY VIOLATION: Output is not a valid PDF. Vector pipeline broken."
RenderTimeoutMsg == "[TIMEOUT] vector render page 0 after 30000ms"
InkscapeMsg == "INKSCAPE_UNAVAILABLE: Inkscape is unavailable."
S3Msg == "S3_BUCKET not configured"
NotFoundMsg == "PrintJob not found"

Contains(msg) ==
    CASE msg = HmacFailedMsg -> {"hmac"}
      [] msg = SecurityViolationMsg -> {"SECURITY VIOLATION"}
      [] msg = RenderTimeoutMsg -> {"timeout"}
      [] msg = InkscapeMsg -> {"inkscape"}
      [] OTHER -> {}

mapErrorCode(msg, fallback) ==
    IF msg = "SVG_NORMALIZE_TIMEOUT" THEN "TIMEOUT"
    ELSE IF "hmac" \in Contains(msg) THEN "HMAC_FAILED"
    ELSE IF "inkscape" \in Contains(msg) THEN "INKSCAPE_FAIL"
    ELSE IF "merge" \in Contains(msg) THEN "MERGE_FAIL"
    ELSE IF "vector metadata" \in Contains(msg) THEN "INVALID_INPUT"
    ELSE IF "SVG too complex" \in Contains(msg) \/ msg = "SVG_TOO_COMPLEX" THEN "SVG_TOO_COMPLEX"
    ELSE IF "SECURITY VIOLATION" \in Contains(msg) THEN "INVALID_OUTPUT"
    ELSE IF "timeout" \in Contains(msg) THEN "TIMEOUT"
    ELSE fallback

(***************************************************************************)
(* The JobRecord (vectorModels/VectorPrintJob.js) and the writes made to   *)
(* it.  Every write refreshes updatedAt (schema option timestamps).        *)
(***************************************************************************)
SignedOutputKey == "documents/final/j1.pdf"
OtherOutputKey == "documents/final/x.pdf"
CreatedAt == "2024-01-01T00:00:00.000Z"

NewJob(id, metaKey) ==
    [exists |-> TRUE,
     id |-> id,
     status |-> "CREATED",
     errorCode |-> Null,
     progress |-> 0,
     output |-> Null,
     metadataOutputKey |-> metaKey,
     createdAt |-> CreatedAt,
     payloadHmac |-> signJobPayload(Obj(<< <<"jobId", Str(id)>>,
                                           <<"outputKey", Str(SignedOutputKey)>>,
                                           <<"createdAt", Str(CreatedAt)>> >>)),
     lifecycleHistory |-> <<>>]

Entry(from, to, source) == [from |-> from, to |-> to, source |-> source]

findById(id) == jobs[CastId(id)]

\* A query filter {_id, status: expected}.
StatusFilter(rec, expected) == rec.exists /\ rec.status = expected

batchFilterById(rec) == rec.exists

\* The filter {_id: printJobId, status: 'CREATED'} of processBatch.
batchFilter(rec) == StatusFilter(rec, "CREATED")

mergeFilterById(rec, from) == rec.exists

\* The filter {_id: rootPrintJobId, status: fromStatus} of processMerge.
mergeFilter(rec, from) == StatusFilter(rec, from)

ReadyFilterById(rec) == rec.exists

\* The filter {_id: rootPrintJobId, status: 'MERGE_RUNNING'} of the READY updateOne.
ReadyFilter(rec) == StatusFilter(rec, "MERGE_RUNNING")

\* $set status (with errorCode: null) and $push of one lifecycleHistory entry.
Transitioned(rec, from, to, source) ==
    [rec EXCEPT !.status = to,
                !.errorCode = Null,
                !.lifecycleHistory = Append(@, Entry(from, to, source))]

clampProgress(progress) == Max(0, Min(100, progress))

\* The fields of a loaded jobDoc that a worker uses after the load.
Snapshot(rec) == [progress |-> rec.progress]

workerSource(name) == IF name = "merge" THEN "merge-worker" ELSE "batch-worker"

ItemFrame == UNCHANGED <<kind, reqId, stalePc, staleFrom, apiPc, call, signer, canon,
                         layout, poll>>

\* A step that does not call releaseRenderLock.
StoreFrame == UNCHANGED <<redis, released>>

\* The locals of a processor invocation that has ended are dropped.
DropLocals(i) ==
    /\ doc' = [doc EXCEPT ![i] = NoDoc]
    /\ fromStatus' = [fromStatus EXCEPT ![i] = "none"]
    /\ page' = [page EXCEPT ![i] = 0]

\* A processor threw: BullMQ marks the attempt failed and emits 'failed'.
Throw(i, msg) ==
    /\ pc' = [pc EXCEPT ![i] = "failed"]
    /\ err' = [err EXCEPT ![i] = msg]
    /\ DropLocals(i)

\* processMerge threw inside its try block: control is in catch (e).
Raise(i, msg) ==
    /\ pc' = [pc EXCEPT ![i] = "m_catch"]
    /\ err' = [err EXCEPT ![i] = msg]
    /\ DropLocals(i)

\* A processor returned.
Return(i) ==
    /\ pc' = [pc EXCEPT ![i] = "done"]
    /\ DropLocals(i)
    /\ UNCHANGED err

Goto(i, label) ==
    /\ pc' = [pc EXCEPT ![i] = label]
    /\ UNCHANGED err

\* updateProgress: jobDoc.progress = clamp(progress); jobDoc.audit.push(...);
\* jobDoc.save().  save() writes the paths that changed on the worker's copy:
\* always the audit entry (and updatedAt), progress only if the value differs
\* from the one the copy held.
updateProgress(i, progress) ==
    /\ jobs' = [jobs EXCEPT ![CastId(reqId[i])].progress =
                   IF clampProgress(progress) # doc[i].progress
                   THEN clampProgress(progress) ELSE @]
    /\ doc' = [doc EXCEPT ![i].progress = clampProgress(progress)]
    /\ idle' = 0

(***************************************************************************)
(* The render lock in the coordination store (Redis): the lock keys        *)
(* vector:render:lock:<documentId> with the claiming job id as value, the  *)
(* membership markers vector:render:active:<jobId> and the counter         *)
(* vector:render:active.  A store is [locks, members, active]: the set of  *)
(* <<documentId, jobId>> of the lock keys that exist, the set of job ids   *)
(* whose marker exists, and the counter (absent reads as 0).               *)
(***************************************************************************)
EmptyStore == [locks |-> {}, members |-> {}, active |-> 0]

lockMatchesAnyHolder(store, documentId, jobId) ==
    \E held \in store.locks : held[1] = documentId

\* cur and tostring(cur) == tostring(ARGV[1])
lockMatches(store, documentId, jobId) == <<documentId, jobId>> \in store.locks

\* DEL KEYS[1]
delLock(store, documentId) == {held \in store.locks : held[1] # documentId}

markerAlwaysExists(store, jobId) == TRUE

\* EXISTS KEYS[3] == 1
markerExists(store, jobId) == jobId \in store.members

delMarkerKeeps(store, jobId) == store.members

\* DEL KEYS[3]
delMarker(store, jobId) == store.members \ {jobId}

decrActiveUnfloored(active) == active - 1

\* if active and active > 0 then DECR KEYS[2]
decrActive(active) == IF active > 0 THEN active - 1 ELSE active

\* The script, evaluated atomically; it returns 1.
RELEASE_RENDER_LOCK_LUA(store, documentId, jobId) ==
    LET locks == IF lockMatches(store, documentId, jobId)
                 THEN delLock(store, documentId)
                 ELSE store.locks
    IN  IF markerExists(store, jobId)
        THEN [locks |-> locks, members |-> delMarker(store, jobId),
              active |-> decrActive(store.active)]
        ELSE [locks |-> locks, members |-> store.members, active |-> store.active]

NoCall == [op |-> "none", documentId |-> "", jobId |-> "", ret |-> 0, nth |-> 0,
           effect |-> FALSE]

NoSigner == [payload |-> Obj(<<>>), hmac |-> NoHmac, presented |-> Obj(<<>>), isValid |-> "none"]
NoCanon == [value |-> Obj(<<>>), of |-> Obj(<<>>), out |-> <<>>]
NoLayout == [op |-> "none"]
NoPoll == [op |-> "none"]

\* getDocumentIdFromJobDoc: the job's source document.
PipelineDoc == "documents/source.pdf"

\* The store after the pipeline job's lock was taken.
HeldBy(jobId) == [locks |-> {<<PipelineDoc, jobId>>}, members |-> {jobId}, active |-> 1]

\* releaseRenderLock({documentId, printJobId}) by work item i: the script with
\* the printJobId as the work item carries it; errors are swallowed.
releaseRenderLock(i) ==
    /\ redis' = RELEASE_RENDER_LOCK_LUA(redis, PipelineDoc, reqId[i])
    /\ released' = [released EXCEPT ![i] = TRUE]

(***************************************************************************)
(* processBatch.                                                           *)
(***************************************************************************)
\* findById, the status checks before the transition.
BatchFind(i) ==
    /\ kind[i] = "batch" /\ pc[i] = "queued"
    /\ LET jobDoc == findById(reqId[i]) IN
         IF ~jobDoc.exists
         THEN Throw(i, NotFoundMsg)
         ELSE IF jobDoc.status \in {"MERGE_RUNNING", "READY", "FAILED"}
         THEN Throw(i, InvalidLifecycle)
         ELSE /\ doc' = [doc EXCEPT ![i] = Snapshot(jobDoc)]
              /\ Goto(i, IF jobDoc.status = "CREATED" THEN "b_cas" ELSE "b_render")
              /\ UNCHANGED <<fromStatus, page>>
    /\ UNCHANGED <<jobs, idle, uploads, cas>>
    /\ ItemFrame /\ StoreFrame

\* findOneAndUpdate({_id, status: 'CREATED'}, BATCH_RUNNING).
BatchCas(i) ==
    /\ kind[i] = "batch" /\ pc[i] = "b_cas"
    /\ LET id == CastId(reqId[i]) IN
         IF batchFilter(jobs[id])
         THEN /\ jobs' = [jobs EXCEPT ![id] =
                            Transitioned(@, "CREATED", "BATCH_RUNNING", "batch-worker")]
              /\ idle' = 0
              /\ doc' = [doc EXCEPT ![i] = Snapshot(jobs'[id])]
              /\ cas' = [cas EXCEPT ![i] = "won"]
              /\ Goto(i, "b_render")
         ELSE /\ cas' = [cas EXCEPT ![i] = "lost"]
              /\ Goto(i, "b_reread")
              /\ UNCHANGED <<jobs, idle, doc>>
    /\ UNCHANGED <<uploads, fromStatus, page>>
    /\ ItemFrame /\ StoreFrame

\* The update matched nothing: findById again, then the BATCH_RUNNING check.
BatchReread(i) ==
    /\ kind[i] = "batch" /\ pc[i] = "b_reread"
    /\ LET jobDoc == findById(reqId[i]) IN
         IF ~jobDoc.exists
         THEN Throw(i, NotFoundMsg)
         ELSE IF jobDoc.status # "BATCH_RUNNING"
         THEN Throw(i, InvalidLifecycle)
         ELSE /\ doc' = [doc EXCEPT ![i] = Snapshot(jobDoc)]
              /\ Goto(i, "b_render")
              /\ UNCHANGED <<fromStatus, page>>
    /\ UNCHANGED <<jobs, idle, uploads, cas>>
    /\ ItemFrame /\ StoreFrame

\* The loop test, createSinglePage + save under withTimeout, the %PDF- check.
BatchRender(i) ==
    /\ kind[i] = "batch" /\ pc[i] = "b_render"
    /\ IF page[i] >= TotalPages
       THEN Return(i)
       ELSE \E outcome \in {"%PDF-", "<svg ", "timeout"} :
              CASE outcome = "%PDF-" ->
                     Goto(i, "b_upload") /\ UNCHANGED <<doc, fromStatus, page>>
                [] outcome = "<svg " -> Throw(i, SecurityViolationMsg)
                [] outcome = "timeout" -> Throw(i, RenderTimeoutMsg)
    /\ UNCHANGED <<jobs, idle, uploads, cas>>
    /\ ItemFrame /\ StoreFrame

tmpKey(pageIndex) == <<"documents/tmp", pageIndex>>

\* uploadToS3WithKey of the page.
BatchUpload(i) ==
    /\ kind[i] = "batch" /\ pc[i] = "b_upload"
    /\ \E ok \in BOOLEAN :
         IF ok
         THEN /\ uploads' = uploads \cup {<<i, tmpKey(page[i])>>}
              /\ Goto(i, "b_progress")
              /\ UNCHANGED <<doc, fromStatus, page>>
         ELSE Throw(i, S3Msg) /\ UNCHANGED uploads
    /\ UNCHANGED <<jobs, idle, cas>>
    /\ ItemFrame /\ StoreFrame

batchPctUncapped(pageIndex, totalPages) ==
    (Max(0, pageIndex + 1) * BatchShare) \div Max(1, totalPages)

\* rendered = min(max(0, pageIndex + 1), totalPages);
\* pct = floor(rendered / max(1, totalPages) * 80).
batchPct(pageIndex, totalPages) ==
    LET rendered == Min(Max(0, pageIndex + 1), totalPages)
    IN  (rendered * BatchShare) \div Max(1, totalPages)

\* updateProgress(jobDoc, max(jobDoc.progress, pct)) and pageIndex += 1.
BatchProgress(i) ==
    /\ kind[i] = "batch" /\ pc[i] = "b_progress"
    /\ updateProgress(i, Max(doc[i].progress, batchPct(page[i], TotalPages)))
    /\ page' = [page EXCEPT ![i] = @ + 1]
    /\ Goto(i, "b_render")
    /\ UNCHANGED <<uploads, fromStatus, cas>>
    /\ ItemFrame /\ StoreFrame

(***************************************************************************)
(* processMerge.                                                           *)
(***************************************************************************)
\* findById, the status check, the jobId check and the signature check.
MergeFind(i) ==
    /\ kind[i] = "merge" /\ pc[i] = "queued"
    /\ LET jobDoc == findById(reqId[i]) IN
         IF ~jobDoc.exists
         THEN Throw(i, NotFoundMsg)
         ELSE IF jobDoc.status \notin {"BATCH_RUNNING", "CREATED"}
         THEN Throw(i, InvalidLifecycle)
         ELSE IF reqId[i] # Get(getStableHmacPayload(jobDoc).obj, "jobId").str
         THEN Throw(i, IdMismatchMsg)
         ELSE IF ~verifyJobPayload(getStableHmacPayload(jobDoc), jobDoc.payloadHmac)
         THEN Throw(i, HmacFailedMsg)
         ELSE /\ doc' = [doc EXCEPT ![i] = Snapshot(jobDoc)]
              /\ fromStatus' = [fromStatus EXCEPT ![i] = jobDoc.status]
              /\ Goto(i, "m_cas")
              /\ UNCHANGED page
    /\ UNCHANGED <<jobs, idle, uploads, cas>>
    /\ ItemFrame /\ StoreFrame

\* findOneAndUpdate({_id, status: fromStatus}, MERGE_RUNNING); a rejected
\* update returns null.
MergeCas(i) ==
    /\ kind[i] = "merge" /\ pc[i] = "m_cas"
    /\ LET id == CastId(reqId[i]) IN
         IF mergeFilter(jobs[id], fromStatus[i])
         THEN /\ jobs' = [jobs EXCEPT ![id] =
                            Transitioned(@, fromStatus[i], "MERGE_RUNNING", "merge-worker")]
              /\ idle' = 0
              /\ cas' = [cas EXCEPT ![i] = "won"]
              /\ Goto(i, "m_p80")
         ELSE /\ cas' = [cas EXCEPT ![i] = "lost"]
              /\ Goto(i, "m_lost")
              /\ UNCHANGED <<jobs, idle>>
    /\ UNCHANGED <<uploads, doc, fromStatus, page>>
    /\ ItemFrame /\ StoreFrame

\* !transitioned: findById for the log, then discardInvalidLifecycle throws.
MergeLost(i) ==
    /\ kind[i] = "merge" /\ pc[i] = "m_lost"
    /\ Throw(i, InvalidLifecycle)
    /\ UNCHANGED <<jobs, idle, uploads, cas>>
    /\ ItemFrame /\ StoreFrame

\* updateProgress(jobDoc, max(jobDoc.progress, 80)).
MergeProgress80(i) ==
    /\ kind[i] = "merge" /\ pc[i] = "m_p80"
    /\ updateProgress(i, Max(doc[i].progress, BatchShare))
    /\ Goto(i, "m_render")
    /\ UNCHANGED <<uploads, fromStatus, cas, page>>
    /\ ItemFrame /\ StoreFrame

\* createPage + save, the %PDF- check.
MergeRender(i) ==
    /\ kind[i] = "merge" /\ pc[i] = "m_render"
    /\ \E outcome \in {"%PDF-", "<svg ", "throws"} :
         CASE outcome = "%PDF-" ->
                Goto(i, "m_p95") /\ UNCHANGED <<doc, fromStatus, page>>
           [] outcome = "<svg " -> Raise(i, SecurityViolationMsg)
           [] outcome = "throws" -> Raise(i, InkscapeMsg)
    /\ UNCHANGED <<jobs, idle, uploads, cas>>
    /\ ItemFrame /\ StoreFrame

\* updateProgress(jobDoc, max(jobDoc.progress, 95)).
MergeProgress95(i) ==
    /\ kind[i] = "merge" /\ pc[i] = "m_p95"
    /\ updateProgress(i, Max(doc[i].progress, FinalRenderProgress))
    /\ Goto(i, "m_upload")
    /\ UNCHANGED <<uploads, fromStatus, cas, page>>
    /\ ItemFrame /\ StoreFrame

\* jobDoc.outputKey is the virtual over hmacPayload.outputKey, set at creation.
finalKey(rec) == SignedOutputKey

\* uploadToS3WithKey of the final artifact.
MergeUpload(i) ==
    /\ kind[i] = "merge" /\ pc[i] = "m_upload"
    /\ \E ok \in BOOLEAN :
         IF ok
         THEN /\ uploads' = uploads \cup {<<i, <<finalKey(jobs[CastId(reqId[i])]), 0>>>>}
              /\ Goto(i, "m_ready")
              /\ UNCHANGED <<doc, fromStatus, page>>
         ELSE Raise(i, S3Msg) /\ UNCHANGED uploads
    /\ UNCHANGED <<jobs, idle, cas>>
    /\ ItemFrame /\ StoreFrame

\* updateOne({_id, status: 'MERGE_RUNNING'}, READY); modifiedCount 0 ends in
\* discardInvalidLifecycle.
MergeReady(i) ==
    /\ kind[i] = "merge" /\ pc[i] = "m_ready"
    /\ LET id == CastId(reqId[i]) IN
         IF ReadyFilter(jobs[id])
         THEN /\ jobs' = [jobs EXCEPT ![id] =
                            [Transitioned(@, "MERGE_RUNNING", "READY", "merge-worker")
                               EXCEPT !.progress = ReadyProgress,
                                      !.output = finalKey(@)]]
              /\ idle' = 0
              /\ pc' = [pc EXCEPT ![i] = "m_release"]
              /\ DropLocals(i)
              /\ UNCHANGED err
         ELSE /\ Raise(i, InvalidLifecycle)
              /\ UNCHANGED <<jobs, idle>>
    /\ UNCHANGED <<uploads, cas>>
    /\ ItemFrame /\ StoreFrame

\* The READY write was accepted: releaseRenderLock, return {ok: true, key}.
MergeRelease(i) ==
    /\ kind[i] = "merge" /\ pc[i] = "m_release"
    /\ releaseRenderLock(i)
    /\ pc' = [pc EXCEPT ![i] = "done"]
    /\ UNCHANGED <<jobs, idle, uploads, doc, fromStatus, err, cas, page>>
    /\ ItemFrame

\* catch (e): releaseRenderLock, throw e.
MergeCatch(i) ==
    /\ kind[i] = "merge" /\ pc[i] = "m_catch"
    /\ releaseRenderLock(i)
    /\ pc' = [pc EXCEPT ![i] = "failed"]
    /\ UNCHANGED <<jobs, idle, uploads, doc, fromStatus, err, cas, page>>
    /\ ItemFrame

(***************************************************************************)
(* worker.on('failed').                                                    *)
(***************************************************************************)
attemptsMade == 1          \* the attempt that just failed

isFinalFailureNever == FALSE

isFinalFailure == attemptsMade >= attempts

\* Where the queue leaves a failed work item: delivered again while attempts
\* remain, unless it was discarded.
afterFailed(discarded) == IF isFinalFailure \/ discarded THEN "done" ELSE "queued"

\* The early return for a discarded work item.
isDiscardedNever(msg) == FALSE

isDiscarded(msg) == msg = InvalidLifecycle

\* The message check, findById, the READY check, fromStatus.
FailedFind(i) ==
    /\ pc[i] = "failed"
    /\ LET jobDoc == findById(reqId[i]) IN
         IF isDiscarded(err[i]) \/ ~jobDoc.exists \/ jobDoc.status = "READY"
         THEN /\ pc' = [pc EXCEPT ![i] =
                         afterFailed(isDiscarded(err[i]) \/ jobDoc.exists)]
              /\ DropLocals(i)
              /\ UNCHANGED err
         ELSE /\ fromStatus' = [fromStatus EXCEPT ![i] = jobDoc.status]
              /\ Goto(i, "f_save")
              /\ UNCHANGED <<doc, page>>
    /\ UNCHANGED <<jobs, idle, uploads, cas>>
    /\ ItemFrame /\ StoreFrame

\* jobDoc.status = 'FAILED', errorCode, the history entry; jobDoc.save().
FailedSave(i) ==
    /\ pc[i] = "f_save"
    /\ jobs' = [jobs EXCEPT ![CastId(reqId[i])] =
                  [@ EXCEPT !.status = "FAILED",
                            !.errorCode = mapErrorCode(err[i], "UNKNOWN"),
                            !.lifecycleHistory =
                                IF isFinalFailure
                                THEN Append(@, Entry(fromStatus[i], "FAILED",
                                                     workerSource(kind[i])))
                                ELSE @]]
    /\ idle' = 0
    /\ IF isFinalFailure
       THEN /\ pc' = [pc EXCEPT ![i] = "f_release"]
            /\ DropLocals(i)
            /\ UNCHANGED err
       ELSE /\ pc' = [pc EXCEPT ![i] = afterFailed(FALSE)]
            /\ DropLocals(i)
            /\ UNCHANGED err
    /\ UNCHANGED <<uploads, cas>>
    /\ ItemFrame /\ StoreFrame

\* if (isFinalFailure) releaseRenderLock({documentId, printJobId}).
FailedRelease(i) ==
    /\ pc[i] = "f_release"
    /\ releaseRenderLock(i)
    /\ pc' = [pc EXCEPT ![i] = afterFailed(FALSE)]
    /\ UNCHANGED <<jobs, idle, uploads, doc, fromStatus, err, cas, page>>
    /\ ItemFrame

(***************************************************************************)
(* The stale-job path of POST /secure-render.                              *)
(***************************************************************************)
ReqFrame == UNCHANGED <<uploads, kind, reqId, pc, doc, fromStatus, err, cas, page,
                        redis, released, call, signer, canon, layout, poll>>

\* The read of jobDoc and the test inProgress && now - updatedAt > staleMs.
StaleRead ==
    /\ stalePc = "idle"
    /\ jobs[PipelineJob].exists
    /\ jobs[PipelineJob].status \in inProgressStatuses
    /\ idle > staleMs
    /\ stalePc' = "cas"
    /\ staleFrom' = jobs[PipelineJob].status
    /\ UNCHANGED <<jobs, idle, apiPc>>
    /\ ReqFrame

StaleFilterByStatus(rec, from, sinceUpdate) == StatusFilter(rec, from)

\* The filter {_id, status: fromStatus, updatedAt: {$lte: cutoff}}, the cutoff
\* being staleMs before the read.
StaleFilter(rec, from, sinceUpdate) == StatusFilter(rec, from) /\ sinceUpdate >= staleMs

\* findOneAndUpdate to FAILED / TIMEOUT.
StaleCas ==
    /\ stalePc = "cas"
    /\ IF StaleFilter(jobs[PipelineJob], staleFrom, idle)
       THEN /\ jobs' = [jobs EXCEPT ![PipelineJob] =
                          [@ EXCEPT !.status = "FAILED",
                                    !.errorCode = "TIMEOUT",
                                    !.lifecycleHistory =
                                        Append(@, Entry(staleFrom, "FAILED", "api"))]]
            /\ idle' = 0
       ELSE UNCHANGED <<jobs, idle>>
    /\ stalePc' = "idle"
    /\ UNCHANGED <<staleFrom, apiPc>>
    /\ ReqFrame

\* Time passes without a write to the job.  A request lasts less than a
\* unit of idle: between its read and its update a job that was written has
\* an updatedAt after the cutoff, whatever time passed since.
Tick ==
    /\ idle < MaxIdle
    /\ stalePc = "idle"
    /\ idle' = idle + 1
    /\ UNCHANGED <<jobs, stalePc, staleFrom, apiPc>>
    /\ ReqFrame

(***************************************************************************)
(* POST /generate (routes/vectorRoutes.js).                                *)
(***************************************************************************)
\* new VectorPrintJob({status: 'CREATED', ...}); jobDoc.save().
ApiCreate ==
    /\ apiPc = "idle"
    /\ jobs' = [jobs EXCEPT ![ApiJob] = NewJob(ApiJob, SignedOutputKey)]
    /\ apiPc' = "render"
    /\ UNCHANGED <<idle, stalePc, staleFrom>>
    /\ ReqFrame

\* renderViaPrintEngine returned a key: updateOne({_id}, READY).
ApiReady ==
    /\ apiPc = "render"
    /\ jobs' = [jobs EXCEPT ![ApiJob] =
                  [@ EXCEPT !.status = "READY",
                            !.progress = ReadyProgress,
                            !.output = "documents/final/api.pdf",
                            !.lifecycleHistory = Append(@, Entry("CREATED", "READY", "api"))]]
    /\ apiPc' = "done"
    /\ UNCHANGED <<idle, stalePc, staleFrom>>
    /\ ReqFrame

\* renderViaPrintEngine threw or returned no key: the handler answers 500.
ApiError ==
    /\ apiPc = "render"
    /\ apiPc' = "done"
    /\ UNCHANGED <<jobs, idle, stalePc, staleFrom>>
    /\ ReqFrame

(***************************************************************************)
(* The system.                                                             *)
(***************************************************************************)
\* A delivered work item: its name and the printJobId it carries.
WorkKinds == {<<"batch", "j1">>, <<"merge", "j1">>, <<"merge", "J1">>}
Rank(w) == CASE w = <<"batch", "j1">> -> 1 [] w = <<"merge", "j1">> -> 2 [] OTHER -> 3

\* Work loads up to the order of the items.
Workloads == {w \in [Items -> WorkKinds] :
                 \A i, j \in Items : i < j => Rank(w[i]) <= Rank(w[j])}

Init ==
    /\ \E metaKey \in {SignedOutputKey, OtherOutputKey} :
         jobs = [id \in JobIds |->
                    IF id = PipelineJob THEN NewJob(id, metaKey) ELSE NoJob]
    /\ idle = 0
    /\ uploads = {}
    /\ \E w \in Workloads :
         /\ kind = [i \in Items |-> w[i][1]]
         /\ reqId = [i \in Items |-> w[i][2]]
    /\ pc = [i \in Items |-> "queued"]
    /\ doc = [i \in Items |-> NoDoc]
    /\ fromStatus = [i \in Items |-> "none"]
    /\ err = [i \in Items |-> NoErr]
    /\ cas = [i \in Items |-> "none"]
    /\ page = [i \in Items |-> 0]
    /\ stalePc = "idle"
    /\ staleFrom = "none"
    /\ apiPc = "idle"
    /\ redis = HeldBy(PipelineJob)
    /\ released = [i \in Items |-> FALSE]
    /\ call = NoCall
    /\ signer = NoSigner
    /\ canon = NoCanon
    /\ layout = NoLayout
    /\ poll = NoPoll

Worker(i) ==
    \/ BatchFind(i) \/ BatchCas(i) \/ BatchReread(i)
    \/ BatchRender(i) \/ BatchUpload(i) \/ BatchProgress(i)
    \/ MergeFind(i) \/ MergeCas(i) \/ MergeLost(i) \/ MergeProgress80(i)
    \/ MergeRender(i) \/ MergeProgress95(i) \/ MergeUpload(i) \/ MergeReady(i)
    \/ MergeRelease(i) \/ MergeCatch(i)
    \/ FailedFind(i) \/ FailedSave(i) \/ FailedRelease(i)

Next ==
    \/ \E i \in Items : Worker(i)
    \/ StaleRead \/ StaleCas \/ Tick
    \/ ApiCreate \/ ApiReady \/ ApiError

Spec == Init /\ [][Next]_vars

(***************************************************************************)
(* The render lock on its own: releases (and acquisitions) by any job on   *)
(* any document, with no pipeline running.                                 *)
(***************************************************************************)
\* No job, no work item in progress, no request.
NoPipeline ==
    /\ jobs = [id \in JobIds |-> NoJob]
    /\ idle = 0
    /\ uploads = {}
    /\ kind = [i \in Items |-> "batch"]
    /\ reqId = [i \in Items |-> PipelineJob]
    /\ pc = [i \in Items |-> "done"]
    /\ doc = [i \in Items |-> NoDoc]
    /\ fromStatus = [i \in Items |-> "none"]
    /\ err = [i \in Items |-> NoErr]
    /\ cas = [i \in Items |-> "none"]
    /\ page = [i \in Items |-> 0]
    /\ stalePc = "idle"
    /\ staleFrom = "none"
    /\ apiPc = "done"
    /\ released = [i \in Items |-> FALSE]

AllDocs == <<"doc1", "doc2", "doc3", "doc4", "doc5", "doc6">>
AllIds == <<"j1", "j2", "j3", "j4", "j5", "j6", "j7", "j8">>
StoreDocs == {AllDocs[n] : n \in 1..NumDocs}
StoreIds == {AllIds[n] : n \in 1..NumIds}

\* The document a job renders (getDocumentIdFromJobDoc of its record).
DocOf(jobId) ==
    LET n == CHOOSE n \in 1..NumIds : AllIds[n] = jobId
    IN  AllDocs[((n - 1) % NumDocs) + 1]

\* Every store: at most one value per lock key, any markers, any counter.
Stores ==
    {[locks |-> l, members |-> m, active |-> a] :
        l \in {l \in SUBSET (StoreDocs \X StoreIds) :
                  \A x, y \in l : x[1] = y[1] => x = y},
        m \in SUBSET StoreIds,
        a \in 0..MaxActive}

\* The call record of a call that follows the calls so far.
Called(op, documentId, jobId, ret, store) ==
    LET again == call.op = op /\ call.documentId = documentId /\ call.jobId = jobId
    IN  [op |-> op, documentId |-> documentId, jobId |-> jobId, ret |-> ret,
         nth |-> IF again THEN 2 ELSE 1,
         effect |-> IF again THEN call.effect ELSE store # redis]

\* releaseRenderLock({documentId, printJobId}): redis.eval of the script.
Release(documentId, jobId) ==
    /\ redis' = RELEASE_RENDER_LOCK_LUA(redis, documentId, jobId)
    /\ call' = Called("release", documentId, jobId, 1, redis')
    /\ UNCHANGED <<pipelineVars, signer, canon, layout, poll>>

\* Acquisition as the specification requires it: in one atomic step, set the
\* lock only if absent, create the job's marker and increment the counter.
Acquire(jobId) ==
    LET documentId == DocOf(jobId)
        absent == \A held \in redis.locks : held[1] # documentId
    IN  /\ redis' = IF absent
                    THEN [locks |-> redis.locks \cup {<<documentId, jobId>>},
                          members |-> redis.members \cup {jobId},
                          active |-> redis.active + 1]
                    ELSE redis
        /\ call' = Called("acquire", documentId, jobId, IF absent THEN 1 ELSE 0, redis')
        /\ UNCHANGED <<pipelineVars, signer, canon, layout, poll>>

StoreInit ==
    /\ NoPipeline
    /\ redis \in Stores
    /\ call = NoCall
    /\ signer = NoSigner
    /\ canon = NoCanon
    /\ layout = NoLayout
    /\ poll = NoPoll

StoreNext == \E documentId \in StoreDocs, jobId \in StoreIds : Release(documentId, jobId)

\* Releases from an arbitrary store.
StoreSpec == StoreInit /\ [][StoreNext]_vars

LockInit ==
    /\ NoPipeline
    /\ redis = EmptyStore
    /\ call = NoCall
    /\ signer = NoSigner
    /\ canon = NoCanon
    /\ layout = NoLayout
    /\ poll = NoPoll

LockNext ==
    \/ \E jobId \in StoreIds : Acquire(jobId)
    \/ \E documentId \in StoreDocs, jobId \in StoreIds : Release(documentId, jobId)

\* Acquisitions and releases from the empty store.
LockSpec == LockInit /\ [][LockNext]_vars

(***************************************************************************)
(* The payload signer on its own: sign a well-formed payload, change the   *)
(* payload that is presented, verify.                                      *)
(***************************************************************************)
AllValues == <<"v1", "v2", "v3", "v4">>
FieldValues == {AllValues[n] : n \in 1..NumValues}
PayloadFields == {"jobId", "outputKey", "createdAt"}

\* The payload getStableHmacPayload returns: {jobId, outputKey, createdAt}.
WellFormed ==
    {Obj(<< <<"jobId", Str(j)>>, <<"outputKey", Str(k)>>, <<"createdAt", Str(c)>> >>) :
        j \in FieldValues, k \in FieldValues, c \in FieldValues}

Reverse(pairs) == [n \in 1..Len(pairs) |-> pairs[Len(pairs) + 1 - n]]

SignerFrame == UNCHANGED <<pipelineVars, redis, call, canon, layout, poll>>

\* payloadHmac = signJobPayload(hmacPayload)
SignPayload ==
    /\ signer.hmac = NoHmac
    /\ signer' = [signer EXCEPT !.hmac = signJobPayload(signer.payload),
                                !.isValid = "none"]
    /\ SignerFrame

\* The presented payload gets another value (or undefined) in one field.
ChangeField ==
    /\ \E n \in 1..Len(signer.presented.obj), v \in {Str(x) : x \in FieldValues} \cup {Undefined} :
         /\ signer.presented.obj[n][2] # v
         /\ signer' = [signer EXCEPT !.presented.obj[n][2] = v, !.isValid = "none"]
    /\ SignerFrame

\* The presented payload is rebuilt with its keys inserted in another order.
ReorderFields ==
    /\ signer' = [signer EXCEPT !.presented.obj = Reverse(@), !.isValid = "none"]
    /\ SignerFrame

\* isValid = verifyJobPayload(payload, jobDoc.payloadHmac)
VerifyPayload ==
    /\ signer.isValid = "none"
    /\ signer' = [signer EXCEPT !.isValid =
                     IF verifyJobPayload(signer.presented, signer.hmac)
                     THEN "true" ELSE "false"]
    /\ SignerFrame

SignerInit ==
    /\ NoPipeline
    /\ redis = EmptyStore
    /\ call = NoCall
    /\ canon = NoCanon
    /\ layout = NoLayout
    /\ poll = NoPoll
    /\ \E p \in WellFormed :
         signer = [payload |-> p, hmac |-> NoHmac, presented |-> p, isValid |-> "none"]

SignerNext == SignPayload \/ ChangeField \/ ReorderFields \/ VerifyPayload

SignerSpec == SignerInit /\ [][SignerNext]_vars

(***************************************************************************)
(* stableStringify on its own: a value, rebuilt with other insertion       *)
(* orders and with or without undefined-valued keys, and serialized.       *)
(***************************************************************************)
KeyNames == {"a", "b"}

Atoms == {Str(x) : x \in FieldValues} \cup {Undefined}

\* The objects with keys among KeyNames, in every insertion order.
ObjectsOver(values) ==
    {Obj(<<>>)}
    \cup {Obj(<< <<k, v>> >>) : k \in KeyNames, v \in values}
    \cup {Obj(<< <<k[1], v>>, <<k[2], w>> >>) :
            k \in {k \in KeyNames \X KeyNames : k[1] # k[2]}, v \in values, w \in values}

\* Objects nested one level deep.
NestedObjects == ObjectsOver(Atoms \cup ObjectsOver(Atoms))

Without(pairs, n) == [m \in 1..(Len(pairs) - 1) |-> IF m < n THEN pairs[m] ELSE pairs[m + 1]]

CanonFrame == UNCHANGED <<pipelineVars, redis, call, signer, layout, poll>>

\* out = stableStringify(value)
Stringify ==
    /\ canon' = [canon EXCEPT !.of = canon.value, !.out = stableStringify(canon.value)]
    /\ CanonFrame

\* The same key/value pairs, inserted in another order.
ReorderKeys ==
    /\ Len(canon.value.obj) > 1
    /\ canon' = [canon EXCEPT !.value.obj = Reverse(@)]
    /\ CanonFrame

\* The same for the object held under a key.
ReorderNestedKeys ==
    /\ \E n \in 1..Len(canon.value.obj) :
         /\ Len(canon.value.obj[n][2].obj) > 1
         /\ canon' = [canon EXCEPT !.value.obj[n][2].obj = Reverse(@)]
    /\ CanonFrame

\* The same object without a key whose value is undefined.
DropUndefinedKey ==
    /\ \E n \in 1..Len(canon.value.obj) :
         \/ /\ canon.value.obj[n][2] = Undefined
            /\ canon' = [canon EXCEPT !.value.obj = Without(@, n)]
         \/ \E m \in 1..Len(canon.value.obj[n][2].obj) :
              /\ canon.value.obj[n][2].obj[m][2] = Undefined
              /\ canon' = [canon EXCEPT !.value.obj[n][2].obj = Without(@, m)]
    /\ CanonFrame

\* The same object with one more key, whose value is undefined.
AddUndefinedKey ==
    /\ \E k \in KeyNames :
         /\ \A n \in 1..Len(canon.value.obj) : canon.value.obj[n][1] # k
         /\ canon' = [canon EXCEPT !.value.obj = Append(@, <<k, Undefined>>)]
    /\ CanonFrame

CanonInit ==
    /\ NoPipeline
    /\ redis = EmptyStore
    /\ call = NoCall
    /\ signer = NoSigner
    /\ layout = NoLayout
    /\ poll = NoPoll
    /\ \E v \in NestedObjects : canon = [value |-> v, of |-> Obj(<<>>), out |-> <<>>]

CanonNext ==
    Stringify \/ ReorderKeys \/ ReorderNestedKeys \/ DropUndefinedKey \/ AddUndefinedKey

CanonSpec == CanonInit /\ [][CanonNext]_vars

(***************************************************************************)
(* The payload signer called with any arguments: signer holds the          *)
(* arguments, the operation called and its outcome.                        *)
(***************************************************************************)
ForbiddenFields == {"pages", "seriesConfig", "placementRules"}
ExtraFields == ForbiddenFields \cup {"documentId"}

\* Values of an extra field: undefined, '', a string, an object or array.
ExtraValues == {Undefined, Str(""), Str(AllValues[1]), Obj(<<>>)}

\* Payloads: non-objects, the well-formed ones, and well-formed ones with one
\* more field.
Payloads ==
    {Undefined, Str(""), Str(AllValues[1])}
    \cup WellFormed
    \cup {Obj(Append(p.obj, <<k, v>>)) : p \in WellFormed, k \in ExtraFields, v \in ExtraValues}

\* Signatures: not a string, empty, too short, and the tag of a payload.
Signatures ==
    {NotAString, NoHmac, ShortTag}
    \cup {signJobPayload(p) : p \in {q \in Payloads : signJobPayloadError(q) = NoErr}}

CallFrame == UNCHANGED <<pipelineVars, redis, call, canon, layout, poll>>

\* signJobPayload(payload)
CallSign ==
    /\ signer.op = "none"
    /\ signer' = [signer EXCEPT
                     !.op = "sign",
                     !.error = signJobPayloadError(signer.payload),
                     !.ret = IF signJobPayloadError(signer.payload) = NoErr
                             THEN signJobPayload(signer.payload) ELSE <<>>]
    /\ CallFrame

\* verifyJobPayload(payload, expectedHmac)
CallVerify ==
    /\ signer.op = "none"
    /\ signer' = [signer EXCEPT
                     !.op = "verify",
                     !.error = verifyJobPayloadError(signer.payload, signer.expectedHmac),
                     !.ret = IF verifyJobPayloadError(signer.payload, signer.expectedHmac) # NoErr
                             THEN <<>>
                             ELSE IF verifyJobPayload(signer.payload, signer.expectedHmac)
                             THEN <<"true">> ELSE <<"false">>]
    /\ CallFrame

CallInit ==
    /\ NoPipeline
    /\ redis = EmptyStore
    /\ call = NoCall
    /\ canon = NoCanon
    /\ layout = NoLayout
    /\ poll = NoPoll
    /\ \E p \in Payloads, h \in Signatures :
         signer = [payload |-> p, expectedHmac |-> h, op |-> "none",
                   error |-> NoErr, ret |-> <<>>]

CallNext == CallSign \/ CallVerify

CallSpec == CallInit /\ [][CallNext]_vars

(***************************************************************************)
(* VectorLayoutEngine.drawSourceFragment in exact-unit (mm) mode, lengths  *)
(* in whole millimetres.                                                   *)
(***************************************************************************)
\* (A4_HEIGHT * 25.4) / 72 is 297 mm and a fraction; for whole millimetres
\* "> A4_HEIGHT_MM" is "> 297".
A4_HEIGHT_MM == 297
MaxSlots == 16

YInvalidMsg == "MM_LAYOUT_INVALID: yMm must be >= 0"
CutMarginInvalidMsg == "MM_LAYOUT_INVALID: cutMarginMm must be >= 0"
DoNotFitMsg == "Objects do not fit on page"

\* Math.max(1, Math.min(16, Number(repeatPerPage || 1)))
clampSlots(repeatPerPage) == Max(1, Min(MaxSlots, IF repeatPerPage = 0 THEN 1 ELSE repeatPerPage))

verticalStepMm(heightMm, cutMarginMm) == heightMm + cutMarginMm

lastObjectTopMm(yMm, heightMm, cutMarginMm, slotsPerPage) ==
    yMm + (slotsPerPage - 1) * verticalStepMm(heightMm, cutMarginMm)

lastObjectBottomMm(yMm, heightMm, cutMarginMm, slotsPerPage) ==
    yMm + (slotsPerPage - 1) * verticalStepMm(heightMm, cutMarginMm) + heightMm

\* The error drawSourceFragment throws before it draws, NoErr if none.
mmLayoutError(yMm, heightMm, cutMarginMm, slotsPerPage) ==
    IF yMm < 0 THEN YInvalidMsg
    ELSE IF cutMarginMm < 0 THEN CutMarginInvalidMsg
    ELSE IF lastObjectBottomMm(yMm, heightMm, cutMarginMm, slotsPerPage) > A4_HEIGHT_MM
         THEN DoNotFitMsg
    ELSE NoErr

\* The placements pushed by the loop, one per slot: index i and objectMm.yMm.
mmSlotPlacements(yMm, heightMm, cutMarginMm, slotsPerPage) ==
    [n \in 1..slotsPerPage |->
        [index |-> n - 1, yMm |-> yMm + (n - 1) * verticalStepMm(heightMm, cutMarginMm),
         heightMm |-> heightMm]]

MaxStart == 10     \* largest yMm
MaxHeight == 19    \* largest heightMm below the page-sized ones
MaxGap == 1        \* largest cutMarginMm

\* heightMm > 0 selects the mm mode; heights around the page height as well.
Heights == (1..MaxHeight) \cup ((A4_HEIGHT_MM - 1)..(A4_HEIGHT_MM + 1))

LayoutFrame == UNCHANGED <<pipelineVars, redis, call, signer, canon, poll>>

\* slotPlacements = await drawSourceFragment(page, sourcePdf, ticketCrop, ...)
DrawSourceFragment ==
    /\ layout.op = "none"
    /\ LET slotsPerPage == clampSlots(layout.repeatPerPage)
           error == mmLayoutError(layout.yMm, layout.heightMm, layout.cutMarginMm, slotsPerPage)
       IN  layout' = [layout EXCEPT
                        !.op = "drawSourceFragment",
                        !.error = error,
                        !.slotPlacements =
                            IF error # NoErr THEN <<>>
                            ELSE mmSlotPlacements(layout.yMm, layout.heightMm,
                                                  layout.cutMarginMm, slotsPerPage)]
    /\ LayoutFrame

LayoutInit ==
    /\ NoPipeline
    /\ redis = EmptyStore
    /\ call = NoCall
    /\ signer = NoSigner
    /\ canon = NoCanon
    /\ poll = NoPoll
    /\ \E yMm \in -1..MaxStart, heightMm \in Heights, cutMarginMm \in -1..MaxGap,
          repeatPerPage \in 1..MaxSlots :
         layout = [op |-> "none", yMm |-> yMm, heightMm |-> heightMm,
                   cutMarginMm |-> cutMarginMm, repeatPerPage |-> repeatPerPage,
                   error |-> NoErr, slotPlacements |-> <<>>]

LayoutNext == DrawSourceFragment

LayoutSpec == LayoutInit /\ [][LayoutNext]_vars

(***************************************************************************)
(* VectorLayoutEngine.drawSeriesNumbers: the text drawn in each slot of a  *)
(* page, a text being the prefix followed by its characters.               *)
(***************************************************************************)
DigitChars == <<"0", "1", "2", "3", "4", "5", "6", "7", "8", "9">>

RECURSIVE String(_)
\* String(n) of an integer: its decimal digits, after "-" if it is negative.
String(n) ==
    IF n < 0 THEN <<"-">> \o String(-n)
    ELSE IF n < 10 THEN <<DigitChars[n + 1]>>
    ELSE String(n \div 10) \o <<DigitChars[(n % 10) + 1]>>

\* rawDigits.padStart(targetLength, '0')
padStart(chars, targetLength) ==
    IF Len(chars) >= targetLength THEN chars
    ELSE [n \in 1..(targetLength - Len(chars)) |-> "0"] \o chars

sliceHead(chars, begin) == SubSeq(chars, 1, Len(chars) - begin)

\* padded.slice(begin)
slice(chars, begin) == SubSeq(chars, begin + 1, Len(chars))

globalIdxPerPage(pageIdx, repeatPerPage, slotIdx) == pageIdx + slotIdx

\* pageIdx * repeatPerPage + slotIdx
globalIdx(pageIdx, repeatPerPage, slotIdx) == pageIdx * repeatPerPage + slotIdx

seriesNumberUnitStep(seriesConfig, pageIdx, repeatPerPage, slotIdx) ==
    seriesConfig.start + globalIdx(pageIdx, repeatPerPage, slotIdx)

\* seriesConfig.start + (globalIdx * seriesConfig.step)
seriesNumber(seriesConfig, pageIdx, repeatPerPage, slotIdx) ==
    seriesConfig.start + globalIdx(pageIdx, repeatPerPage, slotIdx) * seriesConfig.step

\* The seriesValue of a slot.
seriesValue(seriesConfig, pageIdx, repeatPerPage, slotIdx) ==
    LET padLength == seriesConfig.padLength
        rawDigits == String(seriesNumber(seriesConfig, pageIdx, repeatPerPage, slotIdx))
        padded == padStart(rawDigits, padLength)
        finalDigits == IF Len(padded) > padLength
                       THEN slice(padded, Len(padded) - padLength) ELSE padded
    IN  IF padLength > 0 THEN <<seriesConfig.prefix>> \o finalDigits
        ELSE <<seriesConfig.prefix>> \o rawDigits

\* slotDefs.length === 1 ? slotDefs[0] : slotDefs[slotIdx] is defined.
hasSlot(slotDefs, slotIdx) == slotDefs = 1 \/ slotIdx < slotDefs

MaxSeriesStart == 100   \* largest seriesConfig.start
MaxStep == 2            \* largest seriesConfig.step
MaxPad == 5             \* largest seriesConfig.padLength
MaxPage == 1            \* largest pageIdx
MaxRepeat == 4          \* largest repeatPerPage and number of slot definitions

Prefixes == {"", "A-"}

\* await drawSeriesNumbers(page, series, pageIdx, repeatPerPage, slotPlacements)
\* with one placement per slot: the text of every slot, <<>> for a slot
\* without a definition.
DrawSeriesNumbers ==
    /\ layout.op = "none"
    /\ layout' = [layout EXCEPT
                     !.op = "drawSeriesNumbers",
                     !.drawn = [n \in 1..layout.repeatPerPage |->
                                  IF hasSlot(layout.slotDefs, n - 1)
                                  THEN seriesValue(layout.seriesConfig, layout.pageIdx,
                                                   layout.repeatPerPage, n - 1)
                                  ELSE <<>>]]
    /\ LayoutFrame

SeriesInit ==
    /\ NoPipeline
    /\ redis = EmptyStore
    /\ call = NoCall
    /\ signer = NoSigner
    /\ canon = NoCanon
    /\ poll = NoPoll
    /\ \E start \in 0..MaxSeriesStart, step \in 0..MaxStep, padLength \in 0..MaxPad,
          prefix \in Prefixes, pageIdx \in 0..MaxPage, repeatPerPage \in 1..MaxRepeat,
          slotDefs \in 1..MaxRepeat :
         layout = [op |-> "none",
                   seriesConfig |-> [start |-> start, step |-> step,
                                     padLength |-> padLength, prefix |-> prefix],
                   pageIdx |-> pageIdx, repeatPerPage |-> repeatPerPage,
                   slotDefs |-> slotDefs, drawn |-> <<>>]

SeriesNext == DrawSeriesNumbers

SeriesSpec == SeriesInit /\ [][SeriesNext]_vars

(***************************************************************************)
(* The status response of POST /secure-render for a job record in any      *)
(* status and with any error code.                                         *)
(***************************************************************************)
\* errorCode values of a record: none, the empty string, the codes the
\* workers and this path write, and a code of no list.
ErrorCodes == {Null, "", "TIMEOUT", "HMAC_FAILED", "INKSCAPE_FAIL", "MERGE_FAIL",
               "INVALID_INPUT", "SVG_TOO_COMPLEX", "INVALID_OUTPUT", "RENDER_FAIL",
               "UNKNOWN", "E_OTHER"}

nonRetriable == {"HMAC_FAILED", "SVG_TOO_COMPLEX", "INVALID_INPUT"}

\* jobDoc.status === 'FAILED' ? String(jobDoc.errorCode || 'UNKNOWN') : null
errCode(jobDoc) ==
    IF jobDoc.status = "FAILED"
    THEN (IF jobDoc.errorCode \in {Null, ""} THEN "UNKNOWN" ELSE jobDoc.errorCode)
    ELSE Null

canRetryAnyFailed(jobDoc) == jobDoc.status = "FAILED"

canRetry(jobDoc) ==
    IF jobDoc.status = "FAILED" THEN errCode(jobDoc) \notin nonRetriable ELSE FALSE

retryAfterMs(jobDoc) == IF jobDoc.status = "FAILED" THEN 0 ELSE 3000

PollFrame == UNCHANGED <<pipelineVars, redis, call, signer, canon, layout>>

\* The stale-job update of the request: accepted (jobDoc = updated) or
\* rejected because the record changed since it was read (jobDoc kept).
PollStale ==
    /\ poll.op = "read"
    /\ poll.jobDoc.status \in inProgressStatuses /\ poll.stale
    /\ \E updated \in BOOLEAN :
         poll' = [poll EXCEPT
                    !.op = "checked",
                    !.jobDoc = IF updated
                               THEN [status |-> "FAILED", errorCode |-> "TIMEOUT"]
                               ELSE poll.jobDoc]
    /\ PollFrame

\* res.status(200).json({status, canRetry, retryAfterMs, errorCode}) for a job
\* that is not READY; a READY job is answered with the artifact.
PollRespond ==
    /\ \/ poll.op = "checked"
       \/ poll.op = "read" /\ ~(poll.jobDoc.status \in inProgressStatuses /\ poll.stale)
    /\ poll' = [poll EXCEPT
                   !.op = IF poll.jobDoc.status # "READY" THEN "status" ELSE "artifact",
                   !.res = IF poll.jobDoc.status # "READY"
                           THEN [status |-> poll.jobDoc.status,
                                 canRetry |-> canRetry(poll.jobDoc),
                                 retryAfterMs |-> retryAfterMs(poll.jobDoc),
                                 errorCode |-> errCode(poll.jobDoc)]
                           ELSE poll.res]
    /\ PollFrame

NoRes == [status |-> "none", canRetry |-> FALSE, retryAfterMs |-> 0, errorCode |-> Null]

PollInit ==
    /\ NoPipeline
    /\ redis = EmptyStore
    /\ call = NoCall
    /\ signer = NoSigner
    /\ canon = NoCanon
    /\ layout = NoLayout
    /\ \E status \in Statuses, errorCode \in ErrorCodes, stale \in BOOLEAN :
         poll = [op |-> "read", jobDoc |-> [status |-> status, errorCode |-> errorCode],
                 stale |-> stale, res |-> NoRes]

PollNext == PollStale \/ PollRespond

PollSpec == PollInit /\ [][PollNext]_vars

(***************************************************************************)
(* The retention sweep (services/jobCleanup.js) over job records of any    *)
(* status and age; a record is its status and the days since its           *)
(* updatedAt.                                                              *)
(***************************************************************************)
retentionMs == 30                  \* 30 days, in days
MaxAge == retentionMs + 1          \* ages are capped one day past the window

purgeFilterByAge(rec) == rec.exists /\ rec.age >= retentionMs

\* {status: {$in: ['READY', 'FAILED']}, updatedAt: {$lte: retentionBefore}}
purgeFilter(rec) ==
    rec.exists /\ rec.status \in {"READY", "FAILED"} /\ rec.age >= retentionMs

PurgeFrame == UNCHANGED <<idle, uploads, kind, reqId, pc, doc, fromStatus, err, cas, page,
                          stalePc, staleFrom, apiPc, released, redis, signer, canon,
                          layout, poll>>

\* runTerminalJobPurgeOnce: deleteMany with the filter; call.ret is the
\* removedCount.
runTerminalJobPurgeOnce ==
    /\ jobs' = [id \in JobIds |-> IF purgeFilter(jobs[id]) THEN NoJob ELSE jobs[id]]
    /\ call' = [NoCall EXCEPT !.op = "purge",
                              !.ret = Cardinality({id \in JobIds : purgeFilter(jobs[id])})]
    /\ PurgeFrame

\* A day passes without a write.
PurgeTick ==
    /\ \E id \in JobIds : jobs[id].exists /\ jobs[id].age < MaxAge
    /\ jobs' = [id \in JobIds |->
                  IF jobs[id].exists
                  THEN [jobs[id] EXCEPT !.age = Min(MaxAge, @ + 1)]
                  ELSE jobs[id]]
    /\ call' = NoCall
    /\ PurgeFrame

\* A write to a record by a worker or a request: a status, a fresh updatedAt.
PurgeWrite ==
    /\ \E id \in JobIds, status \in Statuses :
         /\ jobs[id].exists
         /\ jobs' = [jobs EXCEPT ![id] = [@ EXCEPT !.status = status, !.age = 0]]
    /\ call' = NoCall
    /\ PurgeFrame

PurgeInit ==
    /\ jobs = [id \in JobIds |-> [exists |-> TRUE, status |-> "CREATED", age |-> 0]]
    /\ idle = 0
    /\ uploads = {}
    /\ kind = [i \in Items |-> "batch"]
    /\ reqId = [i \in Items |-> PipelineJob]
    /\ pc = [i \in Items |-> "done"]
    /\ doc = [i \in Items |-> NoDoc]
    /\ fromStatus = [i \in Items |-> "none"]
    /\ err = [i \in Items |-> NoErr]
    /\ cas = [i \in Items |-> "none"]
    /\ page = [i \in Items |-> 0]
    /\ stalePc = "idle"
    /\ staleFrom = "none"
    /\ apiPc = "done"
    /\ released = [i \in Items |-> FALSE]
    /\ redis = EmptyStore
    /\ call = NoCall
    /\ signer = NoSigner
    /\ canon = NoCanon
    /\ layout = NoLayout
    /\ poll = NoPoll

PurgeNext == runTerminalJobPurgeOnce \/ PurgeTick \/ PurgeWrite

PurgeSpec == PurgeInit /\ [][PurgeNext]_vars

(***************************************************************************)
(* The workers of one process and the renders they run on the singleton    *)
(* vectorLayoutEngine.  A render is cut at its awaits; layout holds the    *)
(* worker count, each worker's position in its render, the render whose    *)
(* document this.pdfDoc is, and whether a render read another's document.  *)
(***************************************************************************)
MaxWorkers == 3    \* largest WORKER_COUNT

NoRender == 0

Workers == 1..layout.count

\* A worker takes a job only when it has none in progress (concurrency 1);
\* its processor calls createSinglePage or createPage, which runs to await
\* loadTemplatePdfOnce.
StartRender(w) ==
    /\ layout.pc[w] = "idle"
    /\ layout' = [layout EXCEPT !.pc[w] = "load"]
    /\ LayoutFrame

\* loadTemplatePdfOnce returned; the render awaits PDFDocument.create().
LoadTemplate(w) ==
    /\ layout.pc[w] = "load"
    /\ layout' = [layout EXCEPT !.pc[w] = "create"]
    /\ LayoutFrame

\* this.pdfDoc = pdf; this.embeddedFonts.clear(); drawSourceFragment runs to
\* await this.pdfDoc.copyPages(...).
CreateDocument(w) ==
    /\ layout.pc[w] = "create"
    /\ layout' = [layout EXCEPT !.pc[w] = "copy", !.pdfDoc = w]
    /\ LayoutFrame

\* copyPages returned; await this.pdfDoc.embedPage(srcPage, embedBox).
EmbedPage(w) ==
    /\ layout.pc[w] = "copy"
    /\ layout' = [layout EXCEPT !.pc[w] = "draw",
                                !.foreign[w] = @ \/ layout.pdfDoc # w]
    /\ LayoutFrame

\* The watermarks and series are drawn (embedFont reads this.pdfDoc and the
\* font cache) and the render returns its document.
FinishRender(w) ==
    /\ layout.pc[w] = "draw"
    /\ layout' = [layout EXCEPT !.pc[w] = "idle",
                                !.foreign[w] = @ \/ layout.pdfDoc # w]
    /\ LayoutFrame

EngineInit ==
    /\ NoPipeline
    /\ redis = EmptyStore
    /\ call = NoCall
    /\ signer = NoSigner
    /\ canon = NoCanon
    /\ poll = NoPoll
    /\ \E count \in 1..MaxWorkers :
         layout = [op |-> "render", count |-> count,
                   pc |-> [w \in 1..count |-> "idle"],
                   pdfDoc |-> NoRender,
                   foreign |-> [w \in 1..count |-> FALSE]]

EngineNext ==
    \/ \E w \in Workers : StartRender(w)
    \/ \E w \in Workers : LoadTemplate(w)
    \/ \E w \in Workers : CreateDocument(w)
    \/ \E w \in Workers : EmbedPage(w)
    \/ \E w \in Workers : FinishRender(w)

EngineSpec == EngineInit /\ [][EngineNext]_vars

(***************************************************************************)
(* The print-agent routes (routes/printRoutes.js): POST /print/request     *)
(* creates a VectorPrintJob in CREATED, POST /print/fetch, /print/confirm  *)
(* and /print/fail load it with findOne, require CREATED, and write the    *)
(* loaded copy back with save().  poll holds the requests in progress: the *)
(* route, the job it names, its position, and the expiry it read.          *)
(***************************************************************************)
NumRequests == 2

Requests == 1..NumRequests
Routes == {"fetch", "confirm", "fail"}

\* VectorPrintJob.create({status: 'CREATED', progress: 0, output: {key: null,
\* url: null, expiresAt}, metadata: {fetchedAt: null, ...}}).
PrintRequested ==
    [exists |-> TRUE, status |-> "CREATED", errorCode |-> Null, progress |-> 0,
     output |-> Null, expiresAt |-> "future", fetchedAt |-> FALSE,
     lifecycleHistory |-> <<>>]

NoRequest == [route |-> "none", id |-> PipelineJob, pc |-> "idle", expired |-> FALSE]

PrintFrame == UNCHANGED <<idle, uploads, kind, reqId, pc, doc, fromStatus, err, cas, page,
                          stalePc, staleFrom, apiPc, released, redis, call, signer,
                          canon, layout>>

PrintRequest(id) ==
    /\ ~jobs[id].exists
    /\ jobs' = [jobs EXCEPT ![id] = PrintRequested]
    /\ UNCHANGED poll
    /\ PrintFrame

\* The expiry time of the job's output passes.
PrintExpire(id) ==
    /\ jobs[id].exists /\ jobs[id].expiresAt = "future"
    /\ jobs' = [jobs EXCEPT ![id].expiresAt = "past"]
    /\ UNCHANGED poll
    /\ PrintFrame

\* findOne({_id: printId, userId}); 404 without a job, 409 unless its status
\* is CREATED, and for /print/fetch 409 once metadata.fetchedAt is set.
PrintFind(r, route, id) ==
    /\ poll.req[r].pc = "idle"
    /\ LET found == jobs[id] IN
         IF found.exists /\ found.status = "CREATED"
            /\ ~(route = "fetch" /\ found.fetchedAt)
         THEN poll' = [poll EXCEPT !.req[r] =
                          [route |-> route, id |-> id, pc |-> "save",
                           expired |-> found.expiresAt = "past"]]
         ELSE poll' = [poll EXCEPT !.req[r] =
                          [route |-> route, id |-> id, pc |-> "done",
                           expired |-> FALSE]]
    /\ UNCHANGED jobs
    /\ PrintFrame

\* /print/fetch: an expired job is saved as FAILED / EXPIRED; otherwise the
\* output is reset and metadata.fetchedAt set.
PrintFetch(r) ==
    /\ poll.req[r].pc = "save" /\ poll.req[r].route = "fetch"
    /\ jobs' = [jobs EXCEPT ![poll.req[r].id] =
                  IF poll.req[r].expired
                  THEN [@ EXCEPT !.status = "FAILED", !.errorCode = "EXPIRED",
                                 !.output = Null, !.expiresAt = Null]
                  ELSE [@ EXCEPT !.output = Null, !.expiresAt = Null,
                                 !.fetchedAt = TRUE]]
    /\ poll' = [poll EXCEPT !.req[r].pc = "done"]
    /\ PrintFrame

\* /print/confirm: job.status = 'READY'; job.errorCode = null; job.output =
\* {key: null, url: null, expiresAt: null}; job.save().
PrintConfirm(r) ==
    /\ poll.req[r].pc = "save" /\ poll.req[r].route = "confirm"
    /\ jobs' = [jobs EXCEPT ![poll.req[r].id] =
                  [@ EXCEPT !.status = "READY", !.errorCode = Null,
                            !.output = Null, !.expiresAt = Null]]
    /\ poll' = [poll EXCEPT !.req[r].pc = "done"]
    /\ PrintFrame

\* /print/fail: job.status = 'FAILED'; job.errorCode = 'PRINT_FAILED';
\* job.output = {key: null, ...}; job.save().
PrintFail(r) ==
    /\ poll.req[r].pc = "save" /\ poll.req[r].route = "fail"
    /\ jobs' = [jobs EXCEPT ![poll.req[r].id] =
                  [@ EXCEPT !.status = "FAILED", !.errorCode = "PRINT_FAILED",
                            !.output = Null, !.expiresAt = Null]]
    /\ poll' = [poll EXCEPT !.req[r].pc = "done"]
    /\ PrintFrame

PrintInit ==
    /\ NoPipeline
    /\ redis = EmptyStore
    /\ call = NoCall
    /\ signer = NoSigner
    /\ canon = NoCanon
    /\ layout = NoLayout
    /\ poll = [op |-> "print", req |-> [r \in Requests |-> NoRequest]]

PrintNext ==
    \/ \E id \in JobIds : PrintRequest(id)
    \/ \E id \in JobIds : PrintExpire(id)
    \/ \E r \in Requests, route \in Routes, id \in JobIds : PrintFind(r, route, id)
    \/ \E r \in Requests : PrintFetch(r)
    \/ \E r \in Requests : PrintConfirm(r)
    \/ \E r \in Requests : PrintFail(r)

PrintSpec == PrintInit /\ [][PrintNext]_vars

(***************************************************************************)
(* The page loop of processBatch on its own, for any totalPages, any page  *)
(* range and any progress of the loaded jobDoc.  call holds job.data, the  *)
(* loop index, the progress of the worker's copy, and the last write.      *)
(***************************************************************************)
MaxTotalPages == 5

ProgressValues == {0, 30, 80, 95, 100}

BatchFrame == UNCHANGED <<jobs, idle, uploads, kind, reqId, pc, doc, fromStatus, err, cas,
                          page, stalePc, staleFrom, apiPc, released, redis, signer,
                          canon, layout, poll>>

\* One pass of the loop body: the page is rendered and uploaded, then
\* updateProgress(jobDoc, Math.max(jobDoc.progress, pct)).
BatchPage ==
    /\ call.op = "batch"
    /\ call.pageIndex < call.endPage
    /\ call' = [call EXCEPT
                  !.progress = clampProgress(Max(@, batchPct(call.pageIndex,
                                                             call.totalPages))),
                  !.previous = call.progress,
                  !.at = call.pageIndex,
                  !.wrote = TRUE,
                  !.pageIndex = @ + 1]
    /\ BatchFrame

\* The loop test fails: return {pages: out}.
BatchReturn ==
    /\ call.op = "batch"
    /\ call.pageIndex >= call.endPage
    /\ call' = [call EXCEPT !.op = "returned"]
    /\ BatchFrame

BatchInit ==
    /\ NoPipeline
    /\ redis = EmptyStore
    /\ signer = NoSigner
    /\ canon = NoCanon
    /\ layout = NoLayout
    /\ poll = NoPoll
    /\ \E totalPages \in 1..MaxTotalPages, progress \in ProgressValues :
         \E startPage \in 0..totalPages :
           \E endPage \in startPage..(totalPages + 1) :
              call = [op |-> "batch", totalPages |-> totalPages,
                      endPage |-> endPage, pageIndex |-> startPage,
                      progress |-> progress, previous |-> progress,
                      at |-> startPage, wrote |-> FALSE]

BatchNext == BatchPage \/ BatchReturn

BatchSpec == BatchInit /\ [][BatchNext]_vars

(***************************************************************************)
(* VectorLayoutEngine.buildSlotLayoutPlan (ratio-grid mode), lengths in    *)
(* whole points.  slotHeight is a quotient by slotsPerPage: every length   *)
(* of a plan is held multiplied by slotsPerPage (the plan's unit), which   *)
(* keeps the quotient exact.  constants.js gives the page size and the     *)
(* margin; the margin is any of SafeMargins.                               *)
(***************************************************************************)
A4_WIDTH == 595
A4_HEIGHT == 842
SafeMargins == {0, 36}

\* Values of slotSpacingPt: none, negative, small, and those for which the
\* gaps of some slot count add up to the usable height or pass it.
Spacings == {-3, 0, 5, 55, 70, 77, 110, 154, 385, 421, 770, 771, 842}

\* Math.max(1, Number(repeatPerPage || 1))
planSlots(repeatPerPage) == Max(1, IF repeatPerPage = 0 THEN 1 ELSE repeatPerPage)

usableHeight(SAFE_MARGIN) == A4_HEIGHT - 2 * SAFE_MARGIN

\* gap = Number.isFinite(rawGap) ? Math.max(0, rawGap) : 0
planGap(slotSpacingPt) == Max(0, slotSpacingPt)

effectiveGapAlways(gap, slotsPerPage, SAFE_MARGIN) == gap

\* heightWithGap > 0 ? gap : 0
effectiveGap(gap, slotsPerPage, SAFE_MARGIN) ==
    LET totalGaps == gap * Max(0, slotsPerPage - 1)
        heightWithGap == usableHeight(SAFE_MARGIN) - totalGaps
    IN  IF heightWithGap > 0 THEN gap ELSE 0

\* slotsPerPage times slotHeight.
slotHeight(gap, slotsPerPage, SAFE_MARGIN) ==
    usableHeight(SAFE_MARGIN)
      - effectiveGap(gap, slotsPerPage, SAFE_MARGIN) * Max(0, slotsPerPage - 1)

\* new Array(slotsPerPage).fill(null).map((_, index) => ({index, x, y, width, height}))
buildSlotLayoutPlan(repeatPerPage, slotSpacingPt, SAFE_MARGIN) ==
    LET slotsPerPage == planSlots(repeatPerPage)
        gap == planGap(slotSpacingPt)
        step == slotHeight(gap, slotsPerPage, SAFE_MARGIN)
                  + slotsPerPage * effectiveGap(gap, slotsPerPage, SAFE_MARGIN)
    IN  [n \in 1..slotsPerPage |->
            [index |-> n - 1,
             x |-> slotsPerPage * SAFE_MARGIN,
             y |-> slotsPerPage * SAFE_MARGIN + (n - 1) * step,
             width |-> slotsPerPage * (A4_WIDTH - 2 * SAFE_MARGIN),
             height |-> slotHeight(gap, slotsPerPage, SAFE_MARGIN)]]

\* const slotLayoutPlan = this.buildSlotLayoutPlan(slotsPerPage, slotSpacingPt)
BuildSlotLayoutPlan ==
    /\ layout.op = "plan"
    /\ layout' = [layout EXCEPT
                    !.op = "planned",
                    !.unit = planSlots(layout.repeatPerPage),
                    !.slotLayoutPlan = buildSlotLayoutPlan(layout.repeatPerPage,
                                                           layout.slotSpacingPt,
                                                           layout.SAFE_MARGIN)]
    /\ LayoutFrame

PlanInit ==
    /\ NoPipeline
    /\ redis = EmptyStore
    /\ call = NoCall
    /\ signer = NoSigner
    /\ canon = NoCanon
    /\ poll = NoPoll
    /\ \E repeatPerPage \in 0..MaxSlots, slotSpacingPt \in Spacings,
          margin \in SafeMargins :
         layout = [op |-> "plan", repeatPerPage |-> repeatPerPage,
                   slotSpacingPt |-> slotSpacingPt, SAFE_MARGIN |-> margin,
                   unit |-> 1, slotLayoutPlan |-> <<>>]

PlanNext == BuildSlotLayoutPlan

PlanSpec == PlanInit /\ [][PlanNext]_vars

(***************************************************************************)
(* Work items whose name is neither 'batch' nor 'merge', delivered for a   *)
(* job in any of its statuses (or for a job that is gone), and the         *)
(* 'failed' handler that runs after the processor threw.                   *)
(***************************************************************************)
UnknownJobMsg == "Unknown job type: other"

\* The job as the pipeline leaves it in each status.
JobShapes ==
    LET created == NewJob(PipelineJob, SignedOutputKey)
        batch == Transitioned(created, "CREATED", "BATCH_RUNNING", "batch-worker")
        merge == Transitioned(batch, "BATCH_RUNNING", "MERGE_RUNNING", "merge-worker")
        ready == [Transitioned(merge, "MERGE_RUNNING", "READY", "merge-worker")
                    EXCEPT !.progress = ReadyProgress, !.output = SignedOutputKey]
        failed == [merge EXCEPT !.status = "FAILED", !.errorCode = "TIMEOUT",
                                !.lifecycleHistory =
                                    Append(@, Entry("MERGE_RUNNING", "FAILED", "api"))]
    IN  {NoJob, created, batch, merge, ready, failed}

\* The processor for any other job.name: traceWarn, job.discard(),
\* throw new Error(`Unknown job type: ${job.name}`).
Dispatch(i) ==
    /\ kind[i] \notin {"batch", "merge"} /\ pc[i] = "queued"
    /\ Throw(i, UnknownJobMsg)
    /\ UNCHANGED <<jobs, idle, uploads, cas>>
    /\ ItemFrame /\ StoreFrame

DispatchInit ==
    /\ \E shape \in JobShapes :
         jobs = [id \in JobIds |-> IF id = PipelineJob THEN shape ELSE NoJob]
    /\ idle = 0
    /\ uploads = {}
    /\ kind = [i \in Items |-> "other"]
    /\ reqId \in [Items -> {"j1", "J1"}]
    /\ pc = [i \in Items |-> "queued"]
    /\ doc = [i \in Items |-> NoDoc]
    /\ fromStatus = [i \in Items |-> "none"]
    /\ err = [i \in Items |-> NoErr]
    /\ cas = [i \in Items |-> "none"]
    /\ page = [i \in Items |-> 0]
    /\ stalePc = "idle"
    /\ staleFrom = "none"
    /\ apiPc = "done"
    /\ redis = HeldBy(PipelineJob)
    /\ released = [i \in Items |-> FALSE]
    /\ call = NoCall
    /\ signer = NoSigner
    /\ canon = NoCanon
    /\ layout = NoLayout
    /\ poll = NoPoll

DispatchNext ==
    \/ \E i \in Items : Dispatch(i)
    \/ \E i \in Items : FailedFind(i)
    \/ \E i \in Items : FailedSave(i)
    \/ \E i \in Items : FailedRelease(i)

DispatchSpec == DispatchInit /\ [][DispatchNext]_vars

(***************************************************************************)
(* The workers under fair scheduling, with persistence errors: every       *)
(* conditional update is followed by .catch(() => null), so an update the  *)
(* database rejects reads as an update that matched nothing.  No request   *)
(* arrives and no time passes.                                             *)
(***************************************************************************)
\* findOneAndUpdate to BATCH_RUNNING rejects: updated is null.
BatchCasError(i) ==
    /\ kind[i] = "batch" /\ pc[i] = "b_cas"
    /\ cas' = [cas EXCEPT ![i] = "error"]
    /\ Goto(i, "b_reread")
    /\ UNCHANGED <<jobs, idle, uploads, doc, fromStatus, page>>
    /\ ItemFrame /\ StoreFrame

\* findOneAndUpdate to MERGE_RUNNING rejects: transitioned is null.
MergeCasError(i) ==
    /\ kind[i] = "merge" /\ pc[i] = "m_cas"
    /\ cas' = [cas EXCEPT ![i] = "error"]
    /\ Goto(i, "m_lost")
    /\ UNCHANGED <<jobs, idle, uploads, doc, fromStatus, page>>
    /\ ItemFrame /\ StoreFrame

\* updateOne to READY rejects: updateRes is null, modified is 0.
MergeReadyError(i) ==
    /\ kind[i] = "merge" /\ pc[i] = "m_ready"
    /\ Raise(i, InvalidLifecycle)
    /\ UNCHANGED <<jobs, idle, uploads, cas>>
    /\ ItemFrame /\ StoreFrame

FairWorker(i) ==
    \/ Worker(i)
    \/ BatchCasError(i) \/ MergeCasError(i) \/ MergeReadyError(i)

FairNext == \E i \in Items : FairWorker(i)

\* A worker that has taken a work item runs it, each await returning or
\* failing, and the 'failed' handler after it.
FairSpec == Init /\ [][FairNext]_vars /\ \A i \in Items : WF_vars(FairWorker(i))

(***************************************************************************)
(* The series of a whole document: drawSeriesNumbers on each page, every   *)
(* slot with a definition, for a start and a step of either sign.  layout  *)
(* holds the number and the text of every (page, slot) occurrence.         *)
(***************************************************************************)
Starts == (-3)..12
Steps == (-MaxStep)..MaxStep
Pads == 0..2

\* for (pageIdx ...) await this.drawSeriesNumbers(page, series, pageIdx,
\* repeatPerPage, slotPlacements)
DrawSeriesPages ==
    /\ layout.op = "series"
    /\ layout' = [layout EXCEPT
                    !.op = "drawn",
                    !.numbers = [p \in 0..MaxPage |->
                                   [n \in 1..layout.repeatPerPage |->
                                      seriesNumber(layout.seriesConfig, p,
                                                   layout.repeatPerPage, n - 1)]],
                    !.texts = [p \in 0..MaxPage |->
                                 [n \in 1..layout.repeatPerPage |->
                                    seriesValue(layout.seriesConfig, p,
                                                layout.repeatPerPage, n - 1)]]]
    /\ LayoutFrame

PagesInit ==
    /\ NoPipeline
    /\ redis = EmptyStore
    /\ call = NoCall
    /\ signer = NoSigner
    /\ canon = NoCanon
    /\ poll = NoPoll
    /\ \E start \in Starts, step \in Steps, padLength \in Pads, prefix \in Prefixes,
          repeatPerPage \in 1..MaxRepeat :
         layout = [op |-> "series",
                   seriesConfig |-> [start |-> start, step |-> step,
                                     padLength |-> padLength, prefix |-> prefix],
                   repeatPerPage |-> repeatPerPage,
                   numbers |-> <<>>, texts |-> <<>>]

PagesNext == DrawSeriesPages

PagesSpec == PagesInit /\ [][PagesNext]_vars

(***************************************************************************)
(* Properties.                                                             *)
(***************************************************************************)
job == jobs[PipelineJob]
History(id) == jobs[id].lifecycleHistory
BatchItems == {i \in Items : kind[i] = "batch"}
MergeItems == {i \in Items : kind[i] = "merge"}
Stepped(i) == pc'[i] # pc[i]
EntriesTo(id, to) == {n \in 1..Len(History(id)) : History(id)[n].to = to}
UploadsOf(i) == {u \in uploads : u[1] = i}

AllowedEdge(e) ==
    \/ <<e.from, e.to>> \in {<<"CREATED", "BATCH_RUNNING">>,
                             <<"BATCH_RUNNING", "MERGE_RUNNING">>,
                             <<"MERGE_RUNNING", "READY">>}
    \/ e.to = "FAILED" /\ e.from \in inProgressStatuses

\* C1: for every job, every lifecycleHistory entry is an edge of the allowed
\* graph (CREATED->BATCH_RUNNING, BATCH_RUNNING->MERGE_RUNNING,
\* MERGE_RUNNING->READY, non-terminal->FAILED), no entry has from = to, and
\* at most one entry enters a terminal state.
C1_HistoryFollowsGraph ==
    \A id \in JobIds :
        jobs[id].exists =>
            /\ \A n \in 1..Len(History(id)) :
                   AllowedEdge(History(id)[n]) /\ History(id)[n].from # History(id)[n].to
            /\ Cardinality(EntriesTo(id, "READY") \cup EntriesTo(id, "FAILED")) <= 1

\* C2: READY and FAILED are absorbing for the pipeline job: no step changes a
\* terminal status.
C2_TerminalAbsorbing ==
    [][job.status \in Terminal => job'.status = job.status]_vars

C3_Inv ==
    LET won == {i \in BatchItems : cas[i] = "won"}
        lost == {i \in BatchItems : cas[i] = "lost"}
    IN  /\ Cardinality(won) <= 1
        /\ Cardinality(EntriesTo(PipelineJob, "BATCH_RUNNING")) = Cardinality(won)
        /\ (lost # {} /\ won = {}) => History(PipelineJob) # <<>>

C3_Step ==
    \A i \in BatchItems :
        /\ (pc[i] = "b_cas" /\ Stepped(i)) =>
               IF job.status = "CREATED"
               THEN job'.status = "BATCH_RUNNING" /\ cas'[i] = "won"
               ELSE jobs' = jobs /\ cas'[i] = "lost" /\ pc'[i] = "b_reread"
        /\ (pc[i] = "b_reread" /\ Stepped(i)) =>
               /\ jobs' = jobs
               /\ IF job.status = "BATCH_RUNNING"
                  THEN pc'[i] = "b_render" /\ err'[i] = NoErr
                  ELSE pc'[i] = "failed" /\ err'[i] = InvalidLifecycle

C4_Inv ==
    LET tried == {i \in MergeItems : cas[i] # "none"}
        won == {i \in MergeItems : cas[i] = "won"}
    IN  /\ Cardinality(won) <= 1
        /\ Cardinality(EntriesTo(PipelineJob, "MERGE_RUNNING")) = Cardinality(won)
        /\ (tried # {} /\ won = {}) => History(PipelineJob) # <<>>

C4_Step ==
    \A i \in MergeItems :
        (pc[i] = "m_cas" /\ Stepped(i)) =>
            IF job.status = fromStatus[i]
            THEN /\ job'.status = "MERGE_RUNNING"
                 /\ Last(job'.lifecycleHistory) =
                        Entry(fromStatus[i], "MERGE_RUNNING", "merge-worker")
                 /\ cas'[i] = "won"
            ELSE jobs' = jobs /\ cas'[i] = "lost" /\ err'[i] = NoErr /\ pc'[i] = "m_lost"

\* C4: the write into MERGE_RUNNING takes effect only if the persisted status
\* equals the expected 'from' status at the moment of the write; of merge
\* workers that read the same status at most one write succeeds (exactly one
\* unless another writer advanced the job first), and a rejected write
\* changes no field of the record and raises no error.
C4_ConditionalTransition == []C4_Inv /\ [][C4_Step]_vars

C4_Witness ==
    \E i, j \in MergeItems :
        /\ cas[i] = "won" /\ cas[j] = "lost"
        /\ Len(History(PipelineJob)) = 1
        /\ pc[j] = "m_lost" /\ err[j] = NoErr

\* C5: the 'failed' handler of a work item that ended with 'Invalid
\* lifecycle transition' returns without changing the JobRecord: no status,
\* error code or lifecycleHistory write.
C5_DiscardedLeavesRecord ==
    [][\A i \in Items :
          (pc[i] = "failed" /\ err[i] = InvalidLifecycle /\ Stepped(i)) =>
              jobs' = jobs /\ pc'[i] = "done"]_vars

C5_Witness ==
    \E i \in Items :
        /\ pc[i] = "done" /\ err[i] = InvalidLifecycle
        /\ job.status # "FAILED" /\ job.errorCode = Null

\* C6: every write that changes a job's status is conditioned on the status
\* the writer expects: the status replaced is the 'from' the writer records.
C6_StatusWritesConditional ==
    [][\A id \in JobIds :
          (jobs[id].exists /\ jobs'[id].status # jobs[id].status) =>
              Last(jobs'[id].lifecycleHistory).from = jobs[id].status]_vars

C7_Step ==
    /\ (job'.status = "READY" /\ job.status # "READY") => job.status = "MERGE_RUNNING"
    /\ job.status = "FAILED" =>
           /\ job'.status # "READY"
           /\ job'.output = job.output
           /\ job'.progress = ReadyProgress => job.progress = ReadyProgress
    /\ \A i \in MergeItems :
           (pc[i] = "m_ready" /\ Stepped(i) /\ job.status # "MERGE_RUNNING") =>
               jobs' = jobs /\ pc'[i] = "m_catch" /\ err'[i] = InvalidLifecycle

SignatureIntact(rec) == signJobPayload(getStableHmacPayload(rec)) = rec.payloadHmac

C8_Inv ==
    /\ \A i \in MergeItems :
           (pc[i] \in {"m_cas", "m_lost", "m_p80", "m_render", "m_p95", "m_upload", "m_ready"}
               \/ cas[i] # "none" \/ UploadsOf(i) # {}) => SignatureIntact(job)
    /\ ~SignatureIntact(job) =>
           /\ job.status \notin {"MERGE_RUNNING", "READY"}
           /\ \A i \in MergeItems : UploadsOf(i) = {}
    /\ \A i \in MergeItems :
           err[i] = HmacFailedMsg => cas[i] = "none" /\ UploadsOf(i) = {} /\ job.status # "READY"

C8_Step ==
    \A i \in MergeItems :
        /\ (pc[i] = "failed" /\ err[i] = HmacFailedMsg /\ Stepped(i)) => pc'[i] = "f_save"
        /\ (pc[i] = "f_save" /\ err[i] = HmacFailedMsg /\ Stepped(i)) =>
               job'.status = "FAILED" /\ job'.errorCode = "HMAC_FAILED"

\* C8: a merge execution transitions to MERGE_RUNNING, renders and uploads
\* only when the signed payload verifies against the persisted signature; a
\* merge whose verification fails uploads nothing, its failure handling
\* leaves the job FAILED with error code HMAC_FAILED, and the job never
\* reaches READY.
C8_VerifyBeforeMerge == []C8_Inv /\ [][C8_Step]_vars

C8_Witness ==
    \E i \in MergeItems :
        /\ pc[i] = "done" /\ err[i] = HmacFailedMsg
        /\ job.status = "FAILED" /\ job.errorCode = "HMAC_FAILED"
        /\ uploads = {}

\* C9: a merge whose payload jobId differs from the id of the job under
\* transition publishes no artifact, and its failure handling records error
\* code HMAC_FAILED on the job.
C9_IdMismatchIsHmacFailed ==
    /\ [](\A i \in MergeItems : err[i] = IdMismatchMsg => UploadsOf(i) = {})
    /\ [][\A i \in MergeItems :
             (pc[i] = "f_save" /\ err[i] = IdMismatchMsg /\ Stepped(i)) =>
                 job'.status = "FAILED" /\ job'.errorCode = "HMAC_FAILED"]_vars

\* C10: a batch or merge stage whose bytes do not begin with %PDF- uploads
\* nothing for that artifact, and its failure handling leaves the job FAILED
\* with error code INVALID_OUTPUT, never READY.
C10_InvalidOutputFailsJob ==
    /\ [](\A i \in Items :
             (err[i] = SecurityViolationMsg /\ kind[i] = "merge") => UploadsOf(i) = {})
    /\ [][\A i \in Items :
             (err[i] = SecurityViolationMsg /\ pc[i] # "done" /\ pc'[i] = "done") =>
                 job'.status = "FAILED" /\ job'.errorCode = "INVALID_OUTPUT"]_vars

\* C11: for an error other than 'Invalid lifecycle transition' on a job that
\* is not READY, the failure handling leaves the job FAILED with an error
\* code, appends exactly one lifecycleHistory entry {from: the status the job
\* had before the write, to: FAILED}, and releases the render lock.
C11_FailureHandling ==
    /\ [][\A i \in Items :
             (pc[i] = "f_save" /\ Stepped(i) /\ job.status # "READY") =>
                 /\ job'.status = "FAILED"
                 /\ job'.errorCode # Null
                 /\ job'.lifecycleHistory =
                        Append(job.lifecycleHistory,
                               Entry(job.status, "FAILED", workerSource(kind[i])))
                 /\ pc'[i] = "f_release"]_vars
    /\ [][\A i \in Items :
             (pc[i] = "f_release" /\ Stepped(i)) => released'[i]]_vars

Taxonomy == {"TIMEOUT", "HMAC_FAILED", "RENDER_FAIL", "MERGE_FAIL", "INVALID_INPUT",
             "SVG_TOO_COMPLEX", "INVALID_OUTPUT", "UNKNOWN"}

\* C12: every error code recorded on a job is a member of the taxonomy, and
\* a failure of the external conversion step is recorded as RENDER_FAIL.
C12_ErrorCodesInTaxonomy ==
    \A id \in JobIds :
        jobs[id].exists =>
            /\ jobs[id].errorCode \in Taxonomy \cup {Null}
            /\ \A i \in Items :
                   (err[i] = InkscapeMsg /\ pc[i] \in {"f_release", "done"}
                       /\ jobs[id].status = "FAILED" /\ CastId(reqId[i]) = id
                       /\ Len(jobs[id].lifecycleHistory) > 0
                       /\ Last(jobs[id].lifecycleHistory).source = workerSource(kind[i])
                       /\ Last(jobs[id].lifecycleHistory).to = "FAILED") =>
                       jobs[id].errorCode = "RENDER_FAIL"

\* A release has just been performed on (documentId, jobId).
ReleaseStep(documentId, jobId) ==
    /\ call' # call \/ redis' # redis
    /\ call'.op = "release" /\ call'.documentId = documentId /\ call'.jobId = jobId

C14_OnlyHolderClearsLock ==
    [][\A documentId \in StoreDocs, jobId \in StoreIds :
          ReleaseStep(documentId, jobId) =>
              redis'.locks = IF <<documentId, jobId>> \in redis.locks
                             THEN redis.locks \ {<<documentId, jobId>>}
                             ELSE redis.locks]_vars

C14_Witness ==
    /\ call.op = "release" /\ call.nth = 1 /\ call.effect
    /\ \E other \in StoreIds \ {call.jobId} : <<call.documentId, other>> \in redis.locks

C16_CounterCountsMarkers ==
    redis.active = Cardinality(redis.members) /\ redis.active >= 0

C16_Witness ==
    /\ call.op = "release" /\ call.effect
    /\ redis.members # {} /\ redis.active = Cardinality(redis.members)

\* C17: every execution of a merge work item, whether it returns or throws
\* at any point, results in releaseRenderLock being invoked for the job.
C17_MergeAlwaysReleases ==
    \A i \in MergeItems : pc[i] = "done" => released[i]

\* C18: the persisted progress of a job is within [0, 100] and never
\* decreases, whatever copies of the job the workers write from.
C18_ProgressMonotone ==
    /\ [](\A id \in JobIds : jobs[id].exists => jobs[id].progress \in 0..100)
    /\ [][\A id \in JobIds :
             jobs[id].exists => jobs'[id].progress >= jobs[id].progress]_vars

SameFields(p, q) == \A k \in PayloadFields : Get(p.obj, k) = Get(q.obj, k)

\* C19: a well-formed payload verifies against its own signature, and a
\* payload that differs from it in the value of a field does not.
C19_VerifyIffUnchanged ==
    (signer.hmac # NoHmac /\ signer.isValid # "none") =>
        (signer.isValid = "true" <=> SameFields(signer.payload, signer.presented))

C19_Witness ==
    /\ signer.hmac # NoHmac /\ signer.isValid = "false"
    /\ Cardinality({k \in PayloadFields :
                       Get(signer.payload.obj, k) # Get(signer.presented.obj, k)}) = 1

\* C20: objects with the same key/value pairs at every depth serialize to
\* the same string whatever the insertion order, and an undefined-valued key
\* serializes as if it were absent.
C20_CanonicalForm ==
    canon.out # <<>> => canon.out = stableStringify(canon.value)

\* The value serialized had keys a (an object with keys a, b) then b; the
\* value now has b first, the nested keys swapped, and an undefined key more
\* or less.
C20_Witness ==
    /\ canon.out # <<>>
    /\ Len(canon.of.obj) = 2 /\ Len(canon.value.obj) = 2
    /\ canon.of.obj[1][1] = "a" /\ canon.value.obj[1][1] = "b"
    /\ Len(canon.of.obj[1][2].obj) = 2 /\ Len(canon.value.obj[2][2].obj) = 1
    /\ canon.of.obj[1][2].obj[1][2] = Undefined
    /\ canon.of.obj[1][2].obj[2][1] = canon.value.obj[2][2].obj[1][1]

\* C21: verifyJobPayload never throws: for every payload and every signature
\* value it returns a boolean, and it returns false whenever the signature is
\* not the payload's.
C21_VerifyNeverThrows ==
    signer.op = "verify" =>
        /\ signer.error = NoErr
        /\ signer.ret \in {<<"true">>, <<"false">>}
        /\ (~(/\ signJobPayloadError(signer.payload) = NoErr
              /\ signJobPayload(signer.payload) = signer.expectedHmac)
                => signer.ret = <<"false">>)

\* C22: signJobPayload returns a signature only for a payload whose fields
\* are exactly jobId, outputKey and createdAt; a payload with a pages,
\* seriesConfig or placementRules field of any value, or with any other
\* additional field, is rejected with an error.
C22_SignOnlyExactTriple ==
    (signer.op = "sign" /\ signer.error = NoErr) =>
        /\ signer.payload.type = "object"
        /\ {signer.payload.obj[n][1] : n \in 1..Len(signer.payload.obj)} = PayloadFields

\* The claimed outcome of an mm-mode layout call.
FitsOrFails ==
    LET slots == layout.repeatPerPage
        step == layout.heightMm + layout.cutMarginMm
    IN  IF layout.yMm + (slots - 1) * step + layout.heightMm > A4_HEIGHT_MM
        THEN layout.error = DoNotFitMsg /\ layout.slotPlacements = <<>>
        ELSE /\ layout.error = NoErr
             /\ Len(layout.slotPlacements) = slots
             /\ \A n \in 1..slots :
                  /\ layout.slotPlacements[n].index = n - 1
                  /\ layout.slotPlacements[n].yMm = layout.yMm + (n - 1) * step

ExampleSeries(pageIdx) ==
    /\ layout.op = "drawSeriesNumbers"
    /\ layout.seriesConfig = [start |-> 100, step |-> 1, padLength |-> 5, prefix |-> "A-"]
    /\ layout.repeatPerPage = 4
    /\ layout.slotDefs = 1
    /\ layout.pageIdx = pageIdx

\* C24 as stated: with start=100, step=1, padLength=5, prefix="A-" and 4
\* repeats per page, slot 0 of page 0 is drawn "A-00100" and slot 2 of page
\* 1 is drawn "A-00105".
C24_ExampleValues ==
    /\ ExampleSeries(0) => layout.drawn[1] = <<"A-", "0", "0", "1", "0", "0">>
    /\ ExampleSeries(1) => layout.drawn[3] = <<"A-", "0", "0", "1", "0", "5">>

\* C24, amended: slot 0 of page 0 is drawn "A-00100" and slot 2 of page 1,
\* the seventh occurrence, is drawn "A-00106"; "A-00105" is slot 1 of page 1.
C24_ExampleValuesSeventh ==
    /\ ExampleSeries(0) => layout.drawn[1] = <<"A-", "0", "0", "1", "0", "0">>
    /\ ExampleSeries(1) =>
          /\ layout.drawn[3] = <<"A-", "0", "0", "1", "0", "6">>
          /\ layout.drawn[2] = <<"A-", "0", "0", "1", "0", "5">>

C24_Witness == ExampleSeries(1) /\ Len(layout.drawn) = 4

RECURSIVE NumberOf(_)
\* The number a sequence of digits denotes.
NumberOf(chars) ==
    IF chars = <<>> THEN 0
    ELSE 10 * NumberOf(SubSeq(chars, 1, Len(chars) - 1))
           + (CHOOSE d \in 0..9 : DigitChars[d + 1] = Last(chars))

RECURSIVE Pow10(_)
Pow10(n) == IF n = 0 THEN 1 ELSE 10 * Pow10(n - 1)

IsDigits(chars) == \A n \in 1..Len(chars) : \E d \in 1..10 : chars[n] = DigitChars[d]

C26_CanRetry ==
    poll.op = "status" =>
        /\ poll.res.status = poll.jobDoc.status /\ poll.res.status # "READY"
        /\ poll.res.status \in inProgressStatuses => ~poll.res.canRetry
        /\ (poll.res.status = "FAILED"
              /\ poll.jobDoc.errorCode \in {"HMAC_FAILED", "SVG_TOO_COMPLEX", "INVALID_INPUT"})
                => ~poll.res.canRetry
        /\ (poll.res.status = "FAILED"
              /\ poll.jobDoc.errorCode \notin {"HMAC_FAILED", "SVG_TOO_COMPLEX", "INVALID_INPUT"})
                => poll.res.canRetry
        /\ poll.res.status # "FAILED" => poll.res.errorCode = Null

\* A job failed for its signature is reported as not to be retried.
C26_Witness ==
    /\ poll.op = "status"
    /\ poll.res.status = "FAILED" /\ poll.res.errorCode = "HMAC_FAILED"
    /\ ~poll.res.canRetry

\* The update of the stale-job path: accepted only on the status read and an
\* updatedAt no later than the cutoff, else the record is unchanged.
C27_Step ==
    (stalePc = "cas" /\ stalePc' = "idle") =>
        IF /\ jobs[PipelineJob].status = staleFrom
           /\ staleFrom \in inProgressStatuses
           /\ idle >= staleMs
        THEN /\ jobs'[PipelineJob].status = "FAILED"
             /\ jobs'[PipelineJob].errorCode = "TIMEOUT"
             /\ jobs'[PipelineJob].lifecycleHistory =
                    Append(jobs[PipelineJob].lifecycleHistory,
                           [from |-> staleFrom, to |-> "FAILED", source |-> "api"])
        ELSE jobs' = jobs

\* C27: the stale-job path moves a job to FAILED (code TIMEOUT, one
\* lifecycleHistory entry from the observed status) only if, at the moment
\* of the write, the job still has the non-terminal status that was read and
\* its last update is older than the staleness window; if a worker advanced
\* or touched the job in between, the write is rejected and the record is
\* unchanged.
C27_StaleOnlyIfUntouched ==
    /\ [](stalePc = "cas" => (staleFrom \in inProgressStatuses /\ idle \in {0, MaxIdle}))
    /\ [][C27_Step]_vars

\* The update was rejected for a job still in the status read, written by a
\* worker since the read.
C27_Witness ==
    /\ stalePc = "idle" /\ staleFrom \in inProgressStatuses
    /\ jobs[PipelineJob].status = staleFrom
    /\ idle = 0

\* A work item that was delivered is not delivered again.
DeliveredOnce == \A i \in Items : pc[i] # "queued" => pc'[i] # "queued"

\* worker.on('failed') ends for work item i, which failed with another
\* error than 'Invalid lifecycle transition'.
HandledFailure(i) ==
    /\ err[i] # InvalidLifecycle
    /\ \/ pc[i] = "failed" /\ pc'[i] \in {"done", "queued"}
       \/ pc[i] = "f_save" /\ pc'[i] # "f_save"

C29_PurgeOnlyOldTerminal ==
    [][\A id \in JobIds :
          (jobs[id].exists /\ ~jobs'[id].exists) =>
              /\ jobs[id].status \in Terminal
              /\ jobs[id].status \notin inProgressStatuses
              /\ jobs[id].age >= retentionMs]_vars

\* A sweep has just deleted one record and kept a record that is in
\* progress and older than the retention window.
C29_Witness ==
    /\ call.op = "purge" /\ call.ret = 1
    /\ \E id \in JobIds :
         /\ jobs[id].exists
         /\ jobs[id].status \in inProgressStatuses
         /\ jobs[id].age > retentionMs

\* C30: once a job's persisted status is MERGE_RUNNING, READY or FAILED, no
\* batch worker renders or uploads a further page or writes progress for
\* that job; a merge that starts from BATCH_RUNNING does not run while a
\* batch worker is still iterating over its page range.
C30_BatchStopsAtMerge ==
    [][\A i \in BatchItems :
          (pc[i] \in {"b_render", "b_upload", "b_progress"} /\ Stepped(i)) =>
              jobs[CastId(reqId[i])].status \notin {"MERGE_RUNNING", "READY", "FAILED"}]_vars

\* C31: within one process at most one render is in progress on the shared
\* layout engine at any time, for every configured worker count, so no
\* render observes the engine's current document overwritten by another.
C31_OneRenderAtATime ==
    /\ Cardinality({w \in Workers : layout.pc[w] # "idle"}) <= 1
    /\ \A w \in Workers : ~layout.foreign[w]

\* C32: every change of a job's persisted status comes with exactly one
\* appended lifecycleHistory entry whose "to" is the new status; a non-empty
\* history ends in an entry whose "to" is the current status; entries are
\* never removed or reordered.
C32_Step ==
    \A id \in JobIds :
        (jobs[id].exists /\ jobs'[id].exists) =>
            LET h == jobs[id].lifecycleHistory
                g == jobs'[id].lifecycleHistory
            IN /\ Len(g) >= Len(h) /\ SubSeq(g, 1, Len(h)) = h
               /\ jobs'[id].status # jobs[id].status =>
                     Len(g) = Len(h) + 1 /\ Last(g).to = jobs'[id].status

C32_Inv ==
    \A id \in JobIds :
        (jobs[id].exists /\ jobs[id].lifecycleHistory # <<>>) =>
            Last(jobs[id].lifecycleHistory).to = jobs[id].status

C32_HistoryTracksStatus == []C32_Inv /\ [][C32_Step]_vars

\* C33: the batch stage never raises progress above 80: for every page index
\* of the range and every totalPages >= 1 the value written is
\* max(previous progress, floor(min(pageIndex + 1, totalPages) / totalPages * 80)).
C33_BatchProgressValue ==
    call.wrote =>
        /\ call.progress =
              Max(call.previous,
                  (Min(call.at + 1, call.totalPages) * 80) \div call.totalPages)
        /\ call.progress <= Max(call.previous, 80)

C33_Witness ==
    /\ call.wrote /\ call.at + 1 > call.totalPages
    /\ call.previous < 80 /\ call.progress = 80

\* The plan of a call with N in 1..16 slots and a gap >= 0 has N slots of
\* equal height and of the usable width, inside the page minus the margins,
\* each below the one before it and away from it by the gap, or by 0 when the
\* gaps alone exceed the usable height (atEquality: or equal it).
SlotPlanOk(atEquality) ==
    (/\ layout.op = "planned"
     /\ layout.repeatPerPage \in 1..MaxSlots
     /\ layout.slotSpacingPt >= 0) =>
        LET N == layout.repeatPerPage
            plan == layout.slotLayoutPlan
            m == layout.SAFE_MARGIN
            usable == A4_HEIGHT - 2 * m
        IN  /\ Len(plan) = N /\ layout.unit = N
            /\ \A n \in 1..N :
                  /\ plan[n].height = plan[1].height
                  /\ plan[n].x = N * m
                  /\ plan[n].width = N * (A4_WIDTH - 2 * m)
                  /\ plan[n].y >= N * m
                  /\ plan[n].y + plan[n].height <= N * (A4_HEIGHT - m)
            /\ \A n \in 1..(N - 1) :
                  /\ plan[n].y + plan[n].height <= plan[n + 1].y
                  /\ plan[n + 1].y - (plan[n].y + plan[n].height)
                        = IF \/ layout.slotSpacingPt * (N - 1) > usable
                             \/ atEquality /\ layout.slotSpacingPt * (N - 1) = usable
                          THEN 0
                          ELSE N * layout.slotSpacingPt

\* C34: in ratio-grid mode, for N in 1..16 and every gap >= 0 the plan has N
\* slots of equal height and full usable width that do not overlap, lie
\* within the page minus the margins, and are separated by the gap, or by 0
\* when the gaps alone would exceed the usable height.
C34_SlotPlan == SlotPlanOk(FALSE)

\* C34 as the code has it: separated by 0 also when the gaps alone equal the
\* usable height.
C34_SlotPlanReaches == SlotPlanOk(TRUE)

C34_Witness ==
    /\ layout.op = "planned" /\ layout.repeatPerPage = 3
    /\ layout.SAFE_MARGIN = 36 /\ layout.slotSpacingPt = 385
    /\ \A n \in 1..2 :
          layout.slotLayoutPlan[n + 1].y
            = layout.slotLayoutPlan[n].y + layout.slotLayoutPlan[n].height

\* C35: a work item whose name is neither 'batch' nor 'merge' is discarded
\* without changing the JobRecord it names: no step of its handling changes
\* the job's status, error fields or lifecycleHistory.
C35_UnknownItemLeavesRecord ==
    [][\A i \in Items :
         (kind[i] \notin {"batch", "merge"} /\ Stepped(i)) =>
             jobs'[CastId(reqId[i])] = jobs[CastId(reqId[i])]]_vars

\* C36: whenever the job's status is terminal (READY or FAILED) and no work
\* item or failure handler for it is still running, the document render lock
\* is not held by the job and the job has no membership marker, whichever
\* path made it terminal.
C36_TerminalHoldsNoLock ==
    (/\ job.exists /\ job.status \in Terminal
     /\ \A i \in Items : pc[i] = "done"
     /\ stalePc = "idle") =>
        /\ <<PipelineDoc, PipelineJob>> \notin redis.locks
        /\ PipelineJob \notin redis.members

\* C37: under weak fairness of the workers, with every call returning or
\* failing, once a merge work item and every other work item of the job has
\* been processed to its end the job is READY or FAILED, also after a
\* persistence error during a conditional transition.
C37_MergeEndsTerminal ==
    (MergeItems # {}) ~>
        ((\A i \in Items : pc[i] = "done") /\ job.status \in Terminal)

\* C38: in every reachable state where a job's status is READY its progress
\* is 100, its errorCode is null and its output key is set; no later write
\* by a batch worker holding a stale copy lowers progress or clears the output.
C38_ReadyIsComplete ==
    \A id \in JobIds :
        (jobs[id].exists /\ jobs[id].status = "READY") =>
            /\ jobs[id].progress = 100
            /\ jobs[id].errorCode = Null
            /\ jobs[id].output # Null

Occurrences == (0..MaxPage) \X (1..layout.repeatPerPage)
NumberAt(o) == layout.numbers[o[1]][o[2]]
TextAt(o) == layout.texts[o[1]][o[2]]
Abs(n) == IF n < 0 THEN -n ELSE n

\* With step # 0 two distinct occurrences get distinct numbers
\* start + (page * slotsPerPage + slot) * step, and distinct texts when every
\* number is short: of at most padLength digits, the sign counted or not.
DistinctSeries(signCounts) ==
    (layout.op = "drawn" /\ layout.seriesConfig.step # 0) =>
        /\ \A o \in Occurrences :
              NumberAt(o) = layout.seriesConfig.start
                              + (o[1] * layout.repeatPerPage + (o[2] - 1))
                                  * layout.seriesConfig.step
        /\ \A o, q \in Occurrences : o # q => NumberAt(o) # NumberAt(q)
        /\ (\A o \in Occurrences :
               Len(String(IF signCounts THEN NumberAt(o) ELSE Abs(NumberAt(o))))
                 <= layout.seriesConfig.padLength)
             => \A o, q \in Occurrences : o # q => TextAt(o) # TextAt(q)

\* C39: for a series with step != 0, any two distinct (page, slot)
\* occurrences with slot < slotsPerPage get distinct series numbers
\* start + (page*slotsPerPage + slot)*step, and the rendered texts are also
\* distinct as long as no number has more than padLength digits.
C39_DistinctSeries == DistinctSeries(FALSE)

\* C39 with the length of a number taken as that of String(number), its
\* minus sign included.
C39_DistinctSeriesSigned == DistinctSeries(TRUE)

C39_Witness ==
    /\ layout.op = "drawn"
    /\ layout.seriesConfig.start = 1 /\ layout.seriesConfig.step = -2
    /\ layout.seriesConfig.padLength = 2 /\ layout.repeatPerPage = 1
    /\ layout.seriesConfig.prefix = "A-"
    /\ TextAt(<<0, 1>>) = <<"A-", "0", "1">>
    /\ TextAt(<<1, 1>>) = <<"A-", "-", "1">>
====
